---- MODULE Spec2Model ----
(***************************************************************************)
(* The exam scheduling core of thinke-tt: calendar expansion, the paper    *)
(* catalog cache, the assigned-URL tracker, the paper selection engine     *)
(* (Cambridge IGCSE grouping, ECESWA grouping, pool reset) and the         *)
(* one-subject-per-day scheduling loop of ExamScheduler.                   *)
(***************************************************************************)
EXTENDS Integers, Sequences, FiniteSets, TLC

VARIABLES
    student,            \* Student handed to ExamScheduler.__init__
    input_data,         \* ScheduleInputData of the student's grade, or NoInputData
    paper_db,           \* past-paper CSV files: grade key -> subject -> list of rows
    persisted,          \* rows of assigned_schedules.csv, in file order
    pc,                 \* position of the caller / of the scheduling run
    student_subjects_with_councils,  \* ExamScheduler._student_subjects_with_councils
    assigned_paper_urls,             \* ExamScheduler._assigned_paper_urls (the tracker)
    subject_paper_cache,             \* ExamScheduler._subject_paper_cache
    all_days,           \* local all_days of get_new_scheduled_papers_for_student
    council_indices,    \* local council_indices
    subject_index,      \* local subject_index
    assigned_rows,      \* local assigned_rows (the value returned)
    attempts,           \* history: the lookups of the last call / the last day
    day_log,            \* history: per processed day, its subject and lookups
    monthly,            \* value returned by _generate_monthly_schedules
    written,            \* rows of assigned_rows the orchestrator has written so far
    queue,              \* students the batch loop has still to reach, each with
                        \* the input configuration of its grade
    first_rows,         \* history: {rows} returned by a first scheduler that was
                        \* discarded without persisting, {} when there was none
    downloaded_papers,  \* rows of downloaded_past_papers.csv, in file order
    src_dir,            \* the paths under Resources/ at which a file exists
    output_dir,         \* the paths under Output/<grade>/ at which a file exists
    pdf_dir,            \* the students whose schedule PDF exists under Output/pdf/
    steps               \* history: the helper calls of the orchestrator, in order

vars == <<student, input_data, paper_db, persisted, pc,
          student_subjects_with_councils, assigned_paper_urls,
          subject_paper_cache, all_days, council_indices, subject_index,
          assigned_rows, attempts, day_log, monthly, written, queue,
          first_rows, downloaded_papers, src_dir, output_dir, pdf_dir, steps>>

\* what the orchestrator's download, copy and PDF steps read and write
disk == <<downloaded_papers, src_dir, output_dir, pdf_dir, steps>>

(***************************************************************************)
(* Bounds of the model.                                                    *)
(***************************************************************************)
MaxWindow == 6
MaxCatalogLen == 3
MaxPersisted == 2
MaxWrites == 3

(***************************************************************************)
(* Small helpers on sequences and sets.                                    *)
(***************************************************************************)
Range(s) == { s[i] : i \in 1..Len(s) }

NoDuplicates(s) == \A i, j \in 1..Len(s) : i # j => s[i] # s[j]

RECURSIVE Flatten(_)
Flatten(ss) == IF ss = << >> THEN << >> ELSE Head(ss) \o Flatten(Tail(ss))

\* All sequences without repetition, of length at most n, over the set S.
RECURSIVE Arrangements(_, _)
Arrangements(S, n) ==
    IF n = 0 \/ S = {} THEN { << >> }
    ELSE { << >> } \cup
         UNION { { <<x>> \o t : t \in Arrangements(S \ {x}, n - 1) } : x \in S }

(***************************************************************************)
(* Dates.  A datetime is a record [y, m, d]; the text form "%d-%m-%y" is   *)
(* the triple <<dd, mm, yy>> with a two-digit year.                        *)
(***************************************************************************)
IsLeapYear(y) == (y % 4 = 0 /\ y % 100 # 0) \/ y % 400 = 0

DaysInMonth(y, m) ==
    IF m = 2 THEN (IF IsLeapYear(y) THEN 29 ELSE 28)
    ELSE IF m \in {4, 6, 9, 11} THEN 30 ELSE 31

\* datetime.strptime(text, "%d-%m-%y"): yy 69..99 is 19yy, yy 00..68 is 20yy.
strptime(text) ==
    [y |-> IF text[3] >= 69 THEN 1900 + text[3] ELSE 2000 + text[3],
     m |-> text[2], d |-> text[1]]

\* datetime.strftime("%d-%m-%y"): the century is dropped.
strftime_dmy(date) == <<date.d, date.m, date.y % 100>>

MonthNames == <<"January", "February", "March", "April", "May", "June", "July",
                "August", "September", "October", "November", "December">>

\* datetime.strftime("%B")
strftime_B(date) == MonthNames[date.m]

RECURSIVE DaysBeforeMonth(_, _)
DaysBeforeMonth(y, m) ==
    IF m = 1 THEN 0 ELSE DaysBeforeMonth(y, m - 1) + DaysInMonth(y, m - 1)

\* date.toordinal(): 0001-01-01 is day 1.
ToOrdinal(date) ==
    LET p == date.y - 1
    IN  p * 365 + (p \div 4) - (p \div 100) + (p \div 400)
        + DaysBeforeMonth(date.y, date.m) + date.d

WeekdayNames == <<"Monday", "Tuesday", "Wednesday", "Thursday", "Friday",
                  "Saturday", "Sunday">>

\* datetime.strftime("%A"): the weekday name; ordinal 1 was a Monday.
strftime_A(date) == WeekdayNames[((ToOrdinal(date) + 6) % 7) + 1]

\* current + timedelta(days=1)
PlusOneDay(date) ==
    IF date.d < DaysInMonth(date.y, date.m) THEN [date EXCEPT !.d = date.d + 1]
    ELSE IF date.m < 12 THEN [date EXCEPT !.m = date.m + 1, !.d = 1]
    ELSE [y |-> date.y + 1, m |-> 1, d |-> 1]

\* datetime comparison a <= b
DateLeq(a, b) ==
    \/ a.y < b.y
    \/ a.y = b.y /\ a.m < b.m
    \/ a.y = b.y /\ a.m = b.m /\ a.d <= b.d

NoInputData == [missing |-> TRUE]

(***************************************************************************)
(* _generate_monthly_schedules: the dict monthly_schedules is a sequence   *)
(* of blocks in insertion order, looked up by its key "<year>-<month>".    *)
(***************************************************************************)
BlockIndexByYear(blocks, year, month) ==
    { i \in 1..Len(blocks) : blocks[i].year = year }

\* the position of the key "<year>-<month name>" in monthly_schedules
BlockIndex(blocks, year, month) ==
    { i \in 1..Len(blocks) : blocks[i].year = year /\ blocks[i].month = month }

AppendDayToBlock(blocks, year, month, day) ==
    LET with_key == IF BlockIndex(blocks, year, month) = {}
                    THEN Append(blocks, [year |-> year, month |-> month, days |-> << >>])
                    ELSE blocks
        i == CHOOSE k \in BlockIndex(with_key, year, month) : TRUE
    IN  [with_key EXCEPT ![i].days = Append(@, day)]

LoopGuardExclusive(current, end_date) == DateLeq(current, end_date) /\ current # end_date

\* the guard of "while current <= end_date"
LoopGuard(current, end_date) == DateLeq(current, end_date)

RECURSIVE MonthlyLoop(_, _, _, _)
MonthlyLoop(current, end_date, excluded_days, blocks) ==
    IF ~LoopGuard(current, end_date) THEN blocks
    ELSE MonthlyLoop(
            PlusOneDay(current), end_date, excluded_days,
            IF strftime_A(current) \notin excluded_days
            THEN AppendDayToBlock(blocks, current.y, strftime_B(current),
                                  strftime_dmy(current))
            ELSE blocks)

generate_monthly_schedules(inp) ==
    MonthlyLoop(strptime(inp.start_date), strptime(inp.end_date),
                inp.excluded_days, << >>)

\* _get_all_days: the set of the days of every month block
get_all_days(inp) ==
    LET blocks == generate_monthly_schedules(inp)
    IN  UNION { Range(blocks[i].days) : i \in 1..Len(blocks) }

\* sorted(days, key=lambda d: datetime.strptime(d, "%d-%m-%y"))
RECURSIVE SortDaysAsText(_)
SortDaysAsText(days) ==
    IF days = {} THEN << >>
    ELSE LET first == CHOOSE a \in days : \A b \in days :
                          \/ a[1] < b[1]
                          \/ a[1] = b[1] /\ a[2] < b[2]
                          \/ a[1] = b[1] /\ a[2] = b[2] /\ a[3] <= b[3]
         IN  <<first>> \o SortDaysAsText(days \ {first})

RECURSIVE SortDays(_)
SortDays(days) ==
    IF days = {} THEN << >>
    ELSE LET first == CHOOSE d \in days :
                        \A e \in days : DateLeq(strptime(d), strptime(e))
         IN  <<first>> \o SortDays(days \ {first})

(***************************************************************************)
(* Paper URLs.  A URL is a string; UrlTokens is its text cut into tokens   *)
(* (words, digit runs, and the separators "/", "_" and " "), which is what *)
(* the regular expressions of the scheduler read.                          *)
(***************************************************************************)
UrlTokens ==
    \* ECESWA, EGCSE Mathematics
       ("eg/22/Maths Paper 1.pdf" :>
            <<"eg", "/", "22", "/", "Maths", " ", "Paper", " ", "1", ".pdf">>)
    @@ ("eg/22/Maths Paper 1 Insert.pdf" :>
            <<"eg", "/", "22", "/", "Maths", " ", "Paper", " ", "1", " ", "Insert", ".pdf">>)
    @@ ("eg/22/Maths Paper 2.pdf" :>
            <<"eg", "/", "22", "/", "Maths", " ", "Paper", " ", "2", ".pdf">>)
    @@ ("eg/21/Maths Paper 1.pdf" :>
            <<"eg", "/", "21", "/", "Maths", " ", "Paper", " ", "1", ".pdf">>)
    @@ ("eg/21/maths_paper2.pdf" :>
            <<"eg", "/", "21", "/", "maths", "_", "paper", "2", ".pdf">>)
    @@ ("eg/22/Maths Syllabus.pdf" :>
            <<"eg", "/", "22", "/", "Maths", " ", "Syllabus", ".pdf">>)
    \* ECESWA, EGCSE English
    @@ ("eg/22/English Paper 1.pdf" :>
            <<"eg", "/", "22", "/", "English", " ", "Paper", " ", "1", ".pdf">>)
    @@ ("eg/21/English Paper 1.pdf" :>
            <<"eg", "/", "21", "/", "English", " ", "Paper", " ", "1", ".pdf">>)
    \* ECESWA, JC Mathematics and English
    @@ ("jc/22/Maths Paper 1.pdf" :>
            <<"jc", "/", "22", "/", "Maths", " ", "Paper", " ", "1", ".pdf">>)
    @@ ("jc/21/Maths Paper 1.pdf" :>
            <<"jc", "/", "21", "/", "Maths", " ", "Paper", " ", "1", ".pdf">>)
    @@ ("jc/22/English Paper 1.pdf" :>
            <<"jc", "/", "22", "/", "English", " ", "Paper", " ", "1", ".pdf">>)
    \* Cambridge IGCSE Mathematics (0580) and English (0500)
    @@ ("ig/0580_s21_qp_12.pdf" :>
            <<"ig", "/", "0580", "_", "s21", "_", "qp", "_", "12", ".pdf">>)
    @@ ("ig/0580_s21_in_12.pdf" :>
            <<"ig", "/", "0580", "_", "s21", "_", "in", "_", "12", ".pdf">>)
    @@ ("ig/0580_s21_ms_12.pdf" :>
            <<"ig", "/", "0580", "_", "s21", "_", "ms", "_", "12", ".pdf">>)
    @@ ("ig/0580_s21_qp_22.pdf" :>
            <<"ig", "/", "0580", "_", "s21", "_", "qp", "_", "22", ".pdf">>)
    @@ ("ig/0580_s22_qp_12.pdf" :>
            <<"ig", "/", "0580", "_", "s22", "_", "qp", "_", "12", ".pdf">>)
    @@ ("ig/0500_s21_qp_12.pdf" :>
            <<"ig", "/", "0500", "_", "s21", "_", "qp", "_", "12", ".pdf">>)
    @@ ("ig/0500_s21_in_12.pdf" :>
            <<"ig", "/", "0500", "_", "s21", "_", "in", "_", "12", ".pdf">>)

Urls == DOMAIN UrlTokens

\* int(text) of a run of digits
DigitValue ==
    ("1" :> 1) @@ ("2" :> 2) @@ ("12" :> 12) @@ ("21" :> 21) @@ ("22" :> 22)
    @@ ("0580" :> 580) @@ ("0500" :> 500)

\* The year and session columns of the CSV row of each URL.
YearOf(url) ==
    IF url \in {"eg/21/Maths Paper 1.pdf", "eg/21/maths_paper2.pdf",
                "eg/21/English Paper 1.pdf", "jc/21/Maths Paper 1.pdf",
                "ig/0580_s21_qp_12.pdf", "ig/0580_s21_in_12.pdf",
                "ig/0580_s21_ms_12.pdf", "ig/0580_s21_qp_22.pdf",
                "ig/0500_s21_qp_12.pdf", "ig/0500_s21_in_12.pdf"}
    THEN 2021 ELSE 2022

SessionOf(url) == IF UrlTokens[url][1] = "ig" THEN "June" ELSE "November"

\* PastPaperMetadataReader.get_subject_metadata: one row of a subject file
PaperRow(grade, subject, url) ==
    [grade |-> grade, subject |-> subject, year |-> YearOf(url),
     session |-> SessionOf(url), url |-> url]

PaperRows(grade, subject, urls) ==
    [i \in 1..Len(urls) |-> PaperRow(grade, subject, urls[i])]

UrlsOf(papers) == { papers[i].url : i \in 1..Len(papers) }

(***************************************************************************)
(* The paper catalog cache.                                                *)
(***************************************************************************)
EceswaGrades == {"EGCSE", "JC"}
IGCSE == "IGCSE"
GradeKeys == EceswaGrades \cup {IGCSE}
ECESWA == "Examinations Councils of Eswatini"
CAMBRIDGE == "Cambridge Assessment International Education"

\* reader.get_subject_metadata(subject) of the reader of one grade key
get_subject_metadata(db, grade_key, subject) ==
    IF subject \in DOMAIN db[grade_key] THEN db[grade_key][subject] ELSE << >>

CacheKeepingEmptyKeys(db, subjects) ==
    [s \in Range(subjects) |-> [g \in GradeKeys |-> get_subject_metadata(db, g, s)]]

\* _cache_all_subject_papers
cache_all_subject_papers(db, subjects) ==
    [s \in Range(subjects) |->
        [g \in { k \in GradeKeys : get_subject_metadata(db, k, s) # << >> } |->
            get_subject_metadata(db, g, s)]]

\* self._subject_paper_cache.get(subject, {}).get(grade, [])
CacheGet(cache, subject, grade) ==
    IF subject \in DOMAIN cache /\ grade \in DOMAIN cache[subject]
    THEN cache[subject][grade] ELSE << >>

(***************************************************************************)
(* Grouping: a dict of lists keyed by group key, in insertion order.       *)
(***************************************************************************)
RECURSIVE DistinctInOrder(_)
DistinctInOrder(s) ==
    IF s = << >> THEN << >>
    ELSE LET front == DistinctInOrder(SubSeq(s, 1, Len(s) - 1))
             last == s[Len(s)]
         IN  IF last \in Range(front) THEN front ELSE Append(front, last)

\* grouped[key].append(paper) for every paper, keys[i] the key of papers[i]:
\* [key, papers] in insertion order
GroupBy(papers, keys) ==
    LET distinct == DistinctInOrder(keys)
    IN  [k \in 1..Len(distinct) |->
            LET members == SelectSeq([i \in 1..Len(papers) |-> i],
                                     LAMBDA i : keys[i] = distinct[k])
            IN  [key |-> distinct[k],
                 papers |-> [j \in 1..Len(members) |-> papers[members[j]]]]]

IsUnassigned(group, tracker) == UrlsOf(group.papers) \cap tracker = {}

TakeFirstUnassignedPartial(groups, tracker) ==
    LET free == { i \in 1..Len(groups) : IsUnassigned(groups[i], tracker) }
    IN  IF free = {} THEN [papers |-> << >>, tracker |-> tracker]
        ELSE LET i == CHOOSE k \in free : \A l \in free : k <= l
             IN  [papers |-> groups[i].papers,
                  tracker |-> tracker \cup {groups[i].papers[1].url}]

\* for group in groups: if all(p.url not in tracker ...): add its URLs; return it
TakeFirstUnassigned(groups, tracker) ==
    LET free == { i \in 1..Len(groups) : IsUnassigned(groups[i], tracker) }
    IN  IF free = {} THEN [papers |-> << >>, tracker |-> tracker]
        ELSE LET i == CHOOSE k \in free : \A l \in free : k <= l
             IN  [papers |-> groups[i].papers,
                  tracker |-> tracker \cup UrlsOf(groups[i].papers)]

(***************************************************************************)
(* _get_next_cambridge_igcse_unassigned_paper                              *)
(***************************************************************************)
\* PurePosixPath(url).name: the tokens after the last "/"
FileName(url) ==
    LET toks == UrlTokens[url]
        slashes == { i \in 1..Len(toks) : toks[i] = "/" }
        last == IF slashes = {} THEN 0
                ELSE CHOOSE i \in slashes : \A j \in slashes : j <= i
    IN  SubSeq(toks, last + 1, Len(toks))

RECURSIVE StripQpOnly(_)
StripQpOnly(toks) ==
    IF Len(toks) < 3 THEN toks
    ELSE IF toks[1] = "_" /\ toks[2] = "qp" /\ toks[3] = "_"
         THEN <<"_">> \o StripQpOnly(SubSeq(toks, 4, Len(toks)))
         ELSE <<toks[1]>> \o StripQpOnly(Tail(toks))

\* re.sub(r'_(qp|in)_', '_', filename): matches left to right, not overlapping
RECURSIVE StripMarker(_)
StripMarker(toks) ==
    IF Len(toks) < 3 THEN toks
    ELSE IF toks[1] = "_" /\ toks[2] \in {"qp", "in"} /\ toks[3] = "_"
         THEN <<"_">> \o StripMarker(SubSeq(toks, 4, Len(toks)))
         ELSE <<toks[1]>> \o StripMarker(Tail(toks))

\* extract_group_key: "grade::subject::year::session::normalized"
extract_group_key(paper) ==
    <<paper.grade, paper.subject, paper.year, paper.session,
      StripMarker(FileName(paper.url))>>

CambridgeGroupsReversed(papers) ==
    LET g == GroupBy(papers, [i \in 1..Len(papers) |-> extract_group_key(papers[i])])
    IN  [i \in 1..Len(g) |-> g[Len(g) + 1 - i]]

\* grouped_papers.values(): the groups in order of first appearance
CambridgeGroups(papers) == GroupBy(papers, [i \in 1..Len(papers) |-> extract_group_key(papers[i])])

CambridgeWithReset(cache, tracker, subject) ==
    LET groups == CambridgeGroups(CacheGet(cache, subject, IGCSE))
        first == TakeFirstUnassigned(groups, tracker)
    IN  IF first.papers # << >> \/ ~(UrlsOf(CacheGet(cache, subject, IGCSE)) \subseteq tracker)
        THEN first
        ELSE TakeFirstUnassigned(groups, tracker \ UrlsOf(CacheGet(cache, subject, IGCSE)))

get_next_cambridge_igcse_unassigned_paper(cache, tracker, subject) ==
    TakeFirstUnassigned(CambridgeGroups(CacheGet(cache, subject, IGCSE)), tracker)

(***************************************************************************)
(* _get_next_eceswa_unassigned_paper                                       *)
(***************************************************************************)
RECURSIVE SkipWhitespace(_, _)
SkipWhitespace(toks, i) ==
    IF i <= Len(toks) /\ toks[i] = " " THEN SkipWhitespace(toks, i + 1) ELSE i

\* a match of r"Paper\s*(\d+)", ignoring case, starting at token i
PaperMatchAt(toks, i) ==
    /\ toks[i] \in {"Paper", "paper", "PAPER"}
    /\ SkipWhitespace(toks, i + 1) <= Len(toks)
    /\ toks[SkipWhitespace(toks, i + 1)] \in DOMAIN DigitValue

\* extract_paper_number: {n} for the integer n, {} for None
extract_paper_number(url) ==
    LET toks == UrlTokens[url]
        hits == { i \in 1..Len(toks) : PaperMatchAt(toks, i) }
    IN  IF hits = {} THEN {}
        ELSE LET i == CHOOSE k \in hits : \A l \in hits : k <= l
             IN  { DigitValue[toks[SkipWhitespace(toks, i + 1)]] }

eceswa_group_key(paper) ==
    [year |-> paper.year, session |-> paper.session,
     paper_number |-> extract_paper_number(paper.url)]

\* x[0][2] or 0
NumberOrZero(n) == IF n = {} THEN 0 ELSE CHOOSE v \in n : TRUE

SortKeyLessAscendingYear(a, b) ==
    \/ a.year < b.year
    \/ a.year = b.year /\ NumberOrZero(a.paper_number) < NumberOrZero(b.paper_number)

\* the order of key=lambda x: (-x[0][0], x[0][2] or 0)
SortKeyLess(a, b) ==
    \/ a.year > b.year
    \/ a.year = b.year /\ NumberOrZero(a.paper_number) < NumberOrZero(b.paper_number)

\* sorted(grouped.items(), key=...): a stable sort
SortedGroups(groups) ==
    LET n == Len(groups)
        Rank(i) == Cardinality({ j \in 1..n :
                        \/ SortKeyLess(groups[j].key, groups[i].key)
                        \/ /\ ~SortKeyLess(groups[i].key, groups[j].key)
                           /\ j < i })
    IN  [r \in 1..n |-> groups[CHOOSE i \in 1..n : Rank(i) = r - 1]]

EceswaGroups(papers) ==
    SortedGroups(GroupBy(papers,
        [i \in 1..Len(papers) |-> eceswa_group_key(papers[i])]))

get_next_eceswa_unassigned_paper(cache, tracker, subject, grade) ==
    TakeFirstUnassigned(EceswaGroups(CacheGet(cache, subject, grade)), tracker)

(***************************************************************************)
(* _get_next_eceswa_with_reset                                             *)
(***************************************************************************)
ResetEveryGrade(cache, tracker, grade) ==
    tracker \ UNION { UrlsOf(CacheGet(cache, s, g)) : s \in DOMAIN cache, g \in GradeKeys }

ResetNothing(cache, tracker, grade) == tracker

\* reset_eceswa_assigned_urls: evicts the URLs of every subject under the grade
reset_eceswa_assigned_urls(cache, tracker, grade) ==
    tracker \ UNION { UrlsOf(CacheGet(cache, s, grade)) : s \in DOMAIN cache }

EceswaWithoutReset(cache, tracker, subject, grade) ==
    [papers |-> get_next_eceswa_unassigned_paper(cache, tracker, subject, grade).papers,
     tracker |-> get_next_eceswa_unassigned_paper(cache, tracker, subject, grade).tracker,
     reset |-> FALSE]

EceswaResetWhenNothingFound(cache, tracker, subject, grade) ==
    LET first == get_next_eceswa_unassigned_paper(cache, tracker, subject, grade)
    IN  IF first.papers # << >>
        THEN [papers |-> first.papers, tracker |-> first.tracker, reset |-> FALSE,
              lookups |-> 1]
        ELSE LET second == get_next_eceswa_unassigned_paper(
                               cache, reset_eceswa_assigned_urls(cache, tracker, grade),
                               subject, grade)
             IN  [papers |-> second.papers, tracker |-> second.tracker,
                  reset |-> TRUE, lookups |-> 2]

\* reset and lookups are history: whether the pool reset was performed by this
\* call, and how many times it ran _get_next_eceswa_unassigned_paper
get_next_eceswa_with_reset(cache, tracker, subject, grade) ==
    LET first == get_next_eceswa_unassigned_paper(cache, tracker, subject, grade)
        all_urls == UrlsOf(CacheGet(cache, subject, grade))
    IN  IF first.papers # << >>
        THEN [papers |-> first.papers, tracker |-> first.tracker, reset |-> FALSE,
              lookups |-> 1]
        ELSE IF all_urls \subseteq tracker
             THEN LET second == get_next_eceswa_unassigned_paper(
                                    cache, reset_eceswa_assigned_urls(cache, tracker, grade),
                                    subject, grade)
                  IN  [papers |-> second.papers, tracker |-> second.tracker,
                       reset |-> TRUE, lookups |-> 2]
             ELSE [papers |-> << >>, tracker |-> tracker, reset |-> FALSE,
                   lookups |-> 1]


(***************************************************************************)
(* Inputs: students, paper files, input configurations.                    *)
(***************************************************************************)
Mathematics == "Mathematics"
English == "English"

Db(egM, egE, jcM, jcE, igM, igE) ==
    [g \in GradeKeys |->
        [s \in {Mathematics, English} |->
            PaperRows(g, s,
                CASE g = "EGCSE" /\ s = Mathematics -> egM
                  [] g = "EGCSE" /\ s = English -> egE
                  [] g = "JC" /\ s = Mathematics -> jcM
                  [] g = "JC" /\ s = English -> jcE
                  [] g = IGCSE /\ s = Mathematics -> igM
                  [] OTHER -> igE)]]

EmptyDb == Db(<< >>, << >>, << >>, << >>, << >>, << >>)

DbUrls(db) == UNION { UrlsOf(db[g][s]) : g \in GradeKeys, s \in {Mathematics, English} }

Student(grade, subjects) == [id |-> "1", grade |-> grade, subjects |-> subjects]

RECURSIVE PlusDays(_, _)
PlusDays(date, n) == IF n = 0 THEN date ELSE PlusDays(PlusOneDay(date), n - 1)

\* A ScheduleInputData whose window starts at start and has n further days.
InputData(start, n, excluded, councils) ==
    [start_date |-> start,
     end_date |-> strftime_dmy(PlusDays(strptime(start), n)),
     excluded_days |-> excluded,
     prioritized_councils |-> councils]

EgcseMathsUrls ==
    {"eg/22/Maths Paper 1.pdf", "eg/22/Maths Paper 1 Insert.pdf",
     "eg/22/Maths Paper 2.pdf", "eg/21/maths_paper2.pdf",
     "eg/22/Maths Syllabus.pdf"}

\* the four papers of years 2021 and 2022, Papers 1 and 2
FourPapers ==
    {"eg/22/Maths Paper 1.pdf", "eg/22/Maths Paper 2.pdf",
     "eg/21/Maths Paper 1.pdf", "eg/21/maths_paper2.pdf"}

IgcseMathsUrls ==
    {"ig/0580_s21_qp_12.pdf", "ig/0580_s21_in_12.pdf", "ig/0580_s21_ms_12.pdf",
     "ig/0580_s21_qp_22.pdf", "ig/0580_s22_qp_12.pdf"}

(***************************************************************************)
(* Values of the variables a specification does not use.                   *)
(***************************************************************************)
NoCall == << >>

IdleScheduler ==
    /\ student_subjects_with_councils = << >>
    /\ all_days = << >>
    /\ council_indices = << >>
    /\ subject_index = 0
    /\ assigned_rows = << >>
    /\ attempts = NoCall
    /\ day_log = << >>
    /\ monthly = << >>
    /\ written = 0
    /\ downloaded_papers = << >>
    /\ src_dir = {}
    /\ output_dir = {}
    /\ pdf_dir = {}
    /\ steps = << >>

(***************************************************************************)
(* SpecCal: the calendar expansion applied to a window.                    *)
(***************************************************************************)
CalStarts == { <<27, 2, 24>>, <<27, 2, 25>>, <<1, 3, 25>>, <<29, 12, 25>> }

InitCal ==
    /\ student = Student("EGCSE", <<Mathematics>>)
    /\ \E start \in CalStarts, n \in 0..MaxWindow, excluded \in SUBSET Range(WeekdayNames) :
            input_data = InputData(start, n, excluded, << >>)
    /\ paper_db = EmptyDb
    /\ persisted = << >>
    /\ pc = "calendar"
    /\ assigned_paper_urls = {}
    /\ subject_paper_cache = << >>
    /\ IdleScheduler
    /\ queue = << >>
    /\ first_rows = {}

CallGenerateMonthlySchedules ==
    /\ pc = "calendar"
    /\ monthly' = generate_monthly_schedules(input_data)
    /\ pc' = "calendar_done"
    /\ UNCHANGED <<disk, queue, first_rows, student, input_data, paper_db, persisted,
                   student_subjects_with_councils, assigned_paper_urls,
                   subject_paper_cache, all_days, council_indices, subject_index,
                   assigned_rows, attempts, day_log, written>>

NextCal == CallGenerateMonthlySchedules

SpecCal == InitCal /\ [][NextCal]_vars

(***************************************************************************)
(* SpecLookup: the selection engine of a constructed scheduler, called     *)
(* lookup by lookup.                                                       *)
(***************************************************************************)
EngineDbs ==
    { Db(m, << >>, << >>, << >>, << >>, << >>) :
        m \in Arrangements(EgcseMathsUrls, MaxCatalogLen)
              \cup { a \in Arrangements(FourPapers, 4) : Len(a) = 4 } }
    \cup { Db(<< >>, << >>, << >>, << >>, c, << >>) :
        c \in Arrangements(IgcseMathsUrls, MaxCatalogLen) }
    \cup { Db(m, e, j, << >>, c, << >>) :
        m \in { << >>, <<"eg/22/Maths Paper 1.pdf", "eg/22/Maths Paper 1 Insert.pdf">> },
        e \in { << >>, <<"eg/22/English Paper 1.pdf">> },
        j \in { << >>, <<"jc/22/Maths Paper 1.pdf">> },
        c \in { << >>, <<"ig/0580_s21_qp_12.pdf", "ig/0580_s21_in_12.pdf">> } }

InitLookup ==
    /\ student = Student("EGCSE", <<Mathematics, English>>)
    /\ input_data = NoInputData
    /\ paper_db \in EngineDbs
    /\ persisted = << >>
    /\ pc = "engine"
    /\ assigned_paper_urls \in SUBSET DbUrls(paper_db)
    /\ subject_paper_cache = cache_all_subject_papers(paper_db, student.subjects)
    /\ IdleScheduler
    /\ queue = << >>
    /\ first_rows = {}

Call(op, subject, grade, before, result) ==
    [op |-> op, subject |-> subject, grade |-> grade, before |-> before,
     papers |-> result.papers, after |-> result.tracker,
     reset |-> IF "reset" \in DOMAIN result THEN result.reset ELSE FALSE,
     lookups |-> IF "lookups" \in DOMAIN result THEN result.lookups ELSE 1]

EngineUnchanged ==
    UNCHANGED <<disk, queue, first_rows, student, input_data, paper_db, persisted, pc,
                student_subjects_with_councils, subject_paper_cache, all_days,
                council_indices, subject_index, assigned_rows, day_log, monthly,
                written>>

CallCambridge(subject) ==
    /\ pc = "engine"
    /\ LET r == get_next_cambridge_igcse_unassigned_paper(
                    subject_paper_cache, assigned_paper_urls, subject)
       IN  /\ assigned_paper_urls' = r.tracker
           /\ attempts' = <<Call("cambridge", subject, IGCSE, assigned_paper_urls, r)>>
    /\ EngineUnchanged

CallEceswaUnassigned(subject, grade) ==
    /\ pc = "engine"
    /\ LET r == get_next_eceswa_unassigned_paper(
                    subject_paper_cache, assigned_paper_urls, subject, grade)
       IN  /\ assigned_paper_urls' = r.tracker
           /\ attempts' = <<Call("eceswa", subject, grade, assigned_paper_urls, r)>>
    /\ EngineUnchanged

CallEceswaWithReset(subject, grade) ==
    /\ pc = "engine"
    /\ LET r == get_next_eceswa_with_reset(
                    subject_paper_cache, assigned_paper_urls, subject, grade)
       IN  /\ assigned_paper_urls' = r.tracker
           /\ attempts' = <<Call("eceswa_with_reset", subject, grade,
                                 assigned_paper_urls, r)>>
    /\ EngineUnchanged

NextLookup ==
    \E subject \in {Mathematics, English} :
        \/ CallCambridge(subject)
        \/ \E grade \in EceswaGrades :
            \/ CallEceswaUnassigned(subject, grade)
            \/ CallEceswaWithReset(subject, grade)

SpecLookup == InitLookup /\ [][NextLookup]_vars


(***************************************************************************)
(* ExamScheduler.__init__ and the persisted schedule rows.                 *)
(***************************************************************************)
\* StudentDataReader.get_exam_schedules_by_id: the rows of one student
get_exam_schedules_by_id(rows, id) == SelectSeq(rows, LAMBDA r : r.student_id = id)

\* _get_scheduled_records without its sort: the student's rows with a URL
ScheduledRecords(rows, id) ==
    SelectSeq(get_exam_schedules_by_id(rows, id), LAMBDA r : r.url # "")

\* _load_assigned_paper_urls
load_assigned_paper_urls(rows, id) ==
    { ScheduledRecords(rows, id)[i].url : i \in 1..Len(ScheduledRecords(rows, id)) }

\* the list comprehension of __init__: the configured subjects the student takes
SubjectsWithDefaultCouncils(inp, subjects) ==
    [i \in 1..Len(subjects) |-> [subject |-> subjects[i], councils |-> <<ECESWA>>]]

subjects_with_councils(inp, subjects) ==
    SelectSeq(inp.prioritized_councils, LAMBDA c : c.subject \in Range(subjects))

HasCompleteWhenAnyAssigned(inp, rows, id) ==
    { ScheduledRecords(rows, id)[i].date : i \in 1..Len(ScheduledRecords(rows, id)) } # {}

\* has_complete_schedule
has_complete_schedule(inp, rows, id) ==
    LET expected_days == get_all_days(inp)
        assigned_days == { ScheduledRecords(rows, id)[i].date :
                              i \in 1..Len(ScheduledRecords(rows, id)) }
    IN  assigned_days # {} /\ assigned_days \subseteq expected_days

(***************************************************************************)
(* get_new_scheduled_papers_for_student                                    *)
(***************************************************************************)
subjects_order(swc) == [i \in 1..Len(swc) |-> swc[i].subject]

\* councils_map[subject]: a dict comprehension, so the last entry of a subject wins
councils_map(swc, subject) ==
    swc[CHOOSE i \in 1..Len(swc) :
            /\ swc[i].subject = subject
            /\ \A j \in (i + 1)..Len(swc) : swc[j].subject # subject].councils

CouncilInListOrder(councils, start_index, i) == councils[(i % Len(councils)) + 1]

\* councils[(start_index + i) % len(councils)]
CouncilAt(councils, start_index, i) ==
    councils[((start_index + i) % Len(councils)) + 1]

\* the branch of get_papers_for_subject that picks the lookup of a council
LookupFor(cache, tracker, grade, subject, council) ==
    IF council = CAMBRIDGE
    THEN Call("cambridge", subject, IGCSE, tracker,
              get_next_cambridge_igcse_unassigned_paper(cache, tracker, subject))
    ELSE IF grade = "EGCSE"
    THEN Call("eceswa_with_reset", subject, "EGCSE", tracker,
              get_next_eceswa_with_reset(cache, tracker, subject, "EGCSE"))
    ELSE Call("eceswa_with_reset", subject, "JC", tracker,
              get_next_eceswa_with_reset(cache, tracker, subject, "JC"))

TryFirstCouncilOnly(cache, tracker, grade, subject, councils, start_index, i, calls) ==
    LET c == LookupFor(cache, tracker, grade, subject,
                       CouncilAt(councils, start_index, i))
    IN  [papers |-> c.papers, tracker |-> c.after, calls |-> Append(calls, c),
         index |-> (start_index + 1) % Len(councils)]

\* for i in range(len(councils)): the lookups from position i on; calls is history
RECURSIVE TryCouncils(_, _, _, _, _, _, _, _)
TryCouncils(cache, tracker, grade, subject, councils, start_index, i, calls) ==
    IF i = Len(councils)
    THEN [papers |-> << >>, tracker |-> tracker, calls |-> calls,
          index |-> (start_index + 1) % Len(councils)]
    ELSE LET c == LookupFor(cache, tracker, grade, subject,
                            CouncilAt(councils, start_index, i))
         IN  IF c.papers # << >>
             THEN [papers |-> c.papers, tracker |-> c.after,
                   calls |-> Append(calls, c),
                   index |-> (start_index + i + 1) % Len(councils)]
             ELSE TryCouncils(cache, c.after, grade, subject, councils,
                              start_index, i + 1, Append(calls, c))

TryEveryCouncil(cache, tracker, grade, subject, councils, index) ==
    LET first == TryCouncils(cache, tracker, grade, subject, councils,
                             index % Len(councils), 0, << >>)
        rest == IF Len(first.calls) < Len(councils)
                THEN TryCouncils(cache, first.tracker, grade, subject, councils,
                                 index % Len(councils), Len(first.calls), first.calls)
                ELSE first
    IN  IF rest.papers # << >> THEN rest ELSE first

GetPapersTryingTwice(cache, tracker, grade, subject, councils, index) ==
    LET first == TryCouncils(cache, tracker, grade, subject, councils,
                             index % Len(councils), 0, << >>)
    IN  IF first.papers # << >> THEN first
        ELSE TryCouncils(cache, first.tracker, grade, subject, councils,
                         index % Len(councils), 0, first.calls)

KeepIndexOnFailure(cache, tracker, grade, subject, councils, index) ==
    LET r == TryCouncils(cache, tracker, grade, subject, councils,
                         index % Len(councils), 0, << >>)
    IN  IF r.papers = << >> THEN [r EXCEPT !.index = index % Len(councils)] ELSE r

\* get_papers_for_subject(subject, councils) with council_indices[subject] = index
\* (when no council yields papers, index is already below len(councils), so
\* council_indices[subject] + 1 is start_index + 1)
get_papers_for_subject(cache, tracker, grade, subject, councils, index) ==
    TryCouncils(cache, tracker, grade, subject, councils,
                index % Len(councils), 0, << >>)

SubjectAtFirst(order, index) == order[1]

\* subjects_order[subject_index % len(subjects_order)]
SubjectAt(order, index) == order[(index % Len(order)) + 1]

AdvanceOnSuccess(index, papers) == IF papers = << >> THEN index ELSE index + 1

\* subject_index += 1, whatever papers holds
AdvanceSubjectIndex(index, papers) == index + 1

ScheduledRow(id, day, p) ==
    [student_id |-> id, date |-> day, grade |-> p.grade, subject |-> p.subject,
     year |-> p.year, session |-> p.session, url |-> p.url]

Placeholder(id, day, subject) ==
    [student_id |-> id, date |-> day, grade |-> "", subject |-> subject,
     year |-> 0, session |-> "", url |-> ""]

RowsOfDayWithoutPlaceholder(id, day, subject, papers) ==
    [i \in 1..Len(papers) |-> ScheduledRow(id, day, papers[i])]

\* the rows appended for one day
RowsOfDay(id, day, subject, papers) ==
    IF papers = << >> THEN <<Placeholder(id, day, subject)>>
    ELSE [i \in 1..Len(papers) |-> ScheduledRow(id, day, papers[i])]

(***************************************************************************)
(* Spec: Orchestrator.generate_exam_preparation_schedules for one student. *)
(***************************************************************************)
CouncilConfigs ==
    { <<[subject |-> Mathematics, councils |-> <<ECESWA>>],
        [subject |-> English, councils |-> <<ECESWA>>]>>,
      <<[subject |-> Mathematics, councils |-> <<ECESWA, CAMBRIDGE>>],
        [subject |-> English, councils |-> <<ECESWA>>]>>,
      <<[subject |-> Mathematics, councils |-> <<CAMBRIDGE, ECESWA>>],
        [subject |-> English, councils |-> <<CAMBRIDGE>>]>>,
      <<[subject |-> English, councils |-> <<ECESWA>>],
        [subject |-> Mathematics, councils |-> <<ECESWA, CAMBRIDGE>>]>>,
      <<[subject |-> Mathematics, councils |-> <<ECESWA, CAMBRIDGE>>]>>,
      <<[subject |-> Mathematics, councils |-> << >>],
        [subject |-> English, councils |-> <<ECESWA>>]>>,
      << >> }

Weekend == {"Saturday", "Sunday"}

RunInputs ==
    { InputData(<<27, 2, 25>>, n, {}, c) : n \in 0..MaxWindow, c \in CouncilConfigs }
    \cup { InputData(<<1, 3, 25>>, n, Weekend, c) : n \in 0..MaxWindow, c \in CouncilConfigs }
    \cup { NoInputData }

RunDbs ==
    { EmptyDb,
      Db(<<"eg/22/Maths Paper 1.pdf">>, <<"eg/22/English Paper 1.pdf">>,
         <<"jc/22/Maths Paper 1.pdf">>, <<"jc/22/English Paper 1.pdf">>, << >>, << >>),
      Db(<<"eg/21/Maths Paper 1.pdf", "eg/22/Maths Paper 1.pdf",
           "eg/22/Maths Paper 1 Insert.pdf">>,
         <<"eg/22/English Paper 1.pdf">>, << >>, << >>, << >>, << >>),
      Db(<<"eg/22/Maths Paper 1.pdf", "eg/22/Maths Paper 2.pdf",
           "eg/21/Maths Paper 1.pdf">>,
         <<"eg/22/English Paper 1.pdf">>,
         <<"jc/21/Maths Paper 1.pdf", "jc/22/Maths Paper 1.pdf">>, << >>,
         << >>, << >>),
      Db(<< >>, <<"eg/22/English Paper 1.pdf", "eg/21/English Paper 1.pdf">>,
         << >>, <<"jc/22/English Paper 1.pdf">>,
         <<"ig/0580_s21_qp_12.pdf", "ig/0580_s21_in_12.pdf", "ig/0580_s22_qp_12.pdf">>,
         << >>),
      Db(<<"eg/22/Maths Paper 1.pdf">>, << >>,
         <<"jc/22/Maths Paper 1.pdf">>, << >>,
         <<"ig/0580_s21_in_12.pdf", "ig/0580_s21_ms_12.pdf", "ig/0580_s21_qp_12.pdf">>,
         <<"ig/0500_s21_qp_12.pdf", "ig/0500_s21_in_12.pdf">>),
      Db(<<"eg/22/Maths Paper 1.pdf", "eg/21/Maths Paper 1.pdf">>, << >>,
         <<"jc/22/Maths Paper 1.pdf">>, << >>, << >>, << >>) }

\* a row a previous window left in assigned_schedules.csv
PreviousRow(id, db, url, day) ==
    LET p == CHOOSE q \in UNION { Range(db[g][s]) : g \in GradeKeys,
                                   s \in {Mathematics, English} } : q.url = url
    IN  ScheduledRow(id, day, p)

PreviousUrls ==
    {"eg/22/Maths Paper 1.pdf", "eg/22/Maths Paper 1 Insert.pdf",
     "jc/22/Maths Paper 1.pdf", "ig/0580_s21_qp_12.pdf"}

Init ==
    /\ student \in { Student(g, <<Mathematics, English>>) : g \in EceswaGrades }
    /\ input_data \in RunInputs
    /\ paper_db \in RunDbs
    /\ persisted \in { << >> } \cup
            { <<PreviousRow(student.id, paper_db, u, <<20, 2, 25>>)>> :
                u \in PreviousUrls \cap DbUrls(paper_db) } \cup
            { <<PreviousRow(student.id, paper_db, u, <<3, 3, 25>>)>> :
                u \in {"eg/22/English Paper 1.pdf"} \cap DbUrls(paper_db) }
    /\ pc = "start"
    /\ assigned_paper_urls = {}
    /\ subject_paper_cache = << >>
    /\ IdleScheduler
    /\ queue = << >>
    /\ first_rows = {}

ConstructKeepingTracker ==
    /\ pc = "start"
    /\ input_data # NoInputData
    /\ student_subjects_with_councils' =
            subjects_with_councils(input_data, student.subjects)
    /\ subject_paper_cache' = cache_all_subject_papers(paper_db, student.subjects)
    /\ pc' = "constructed"
    /\ UNCHANGED <<disk, queue, first_rows, student, input_data, paper_db, persisted,
                   assigned_paper_urls, all_days, council_indices, subject_index,
                   assigned_rows, attempts, day_log, monthly, written>>

\* scheduler = ExamScheduler(student)
Construct ==
    /\ pc = "start"
    /\ IF input_data = NoInputData
       THEN \* self._input_data.prioritized_councils on None: AttributeError
            /\ pc' = "fault"
            /\ UNCHANGED <<student_subjects_with_councils, assigned_paper_urls,
                           subject_paper_cache>>
       ELSE /\ student_subjects_with_councils' =
                    subjects_with_councils(input_data, student.subjects)
            /\ assigned_paper_urls' = load_assigned_paper_urls(persisted, student.id)
            /\ subject_paper_cache' = cache_all_subject_papers(paper_db, student.subjects)
            /\ pc' = "constructed"
    /\ UNCHANGED <<disk, queue, first_rows, student, input_data, paper_db, persisted, all_days,
                   council_indices, subject_index, assigned_rows, attempts, day_log,
                   monthly, written>>

\* history: one helper of generate_exam_preparation_schedules was called for a
\* student; ran tells whether the guarded body of the helper was executed
HelperCall(id, step, ran) == [student |-> id, step |-> step, ran |-> ran]

CreateScheduleUngated ==
    /\ pc = "constructed"
    /\ all_days' = SortDays(get_all_days(input_data))
    /\ council_indices' =
          [s \in Range(subjects_order(student_subjects_with_councils)) |-> 0]
    /\ pc' = "loop"
    /\ steps' = Append(steps, HelperCall(student.id, "create", TRUE))
    /\ UNCHANGED <<downloaded_papers, src_dir, output_dir, pdf_dir, queue, first_rows,
                   student, input_data, paper_db, persisted,
                   student_subjects_with_councils, assigned_paper_urls,
                   subject_paper_cache, subject_index, assigned_rows, attempts,
                   day_log, monthly, written>>

\* create_schedule_helper up to the first day of get_new_scheduled_papers_for_student
CreateSchedule ==
    /\ pc = "constructed"
    /\ IF has_complete_schedule(input_data, persisted, student.id)
       THEN /\ pc' = "done"
            /\ UNCHANGED <<all_days, council_indices>>
       ELSE /\ all_days' = SortDays(get_all_days(input_data))
            /\ council_indices' =
                  [s \in Range(subjects_order(student_subjects_with_councils)) |-> 0]
            /\ pc' = "loop"
    /\ steps' = Append(steps, HelperCall(student.id, "create",
                                 ~has_complete_schedule(input_data, persisted,
                                                        student.id)))
    /\ UNCHANGED <<downloaded_papers, src_dir, output_dir, pdf_dir, queue, first_rows,
                   student, input_data, paper_db, persisted,
                   student_subjects_with_councils, assigned_paper_urls,
                   subject_paper_cache, subject_index, assigned_rows, attempts,
                   day_log, monthly, written>>

WithoutPapers(cache, urls) ==
    [s \in DOMAIN cache |->
        [g \in DOMAIN cache[s] |-> SelectSeq(cache[s][g], LAMBDA p : p.url \notin urls)]]

ScheduleDayConsumingCatalog ==
    /\ pc = "loop"
    /\ Len(day_log) < Len(all_days)
    /\ LET order == subjects_order(student_subjects_with_councils)
           day == all_days[Len(day_log) + 1]
       IN  IF order = << >>
           THEN \* subject_index % len(subjects_order): ZeroDivisionError
                /\ pc' = "fault"
                /\ UNCHANGED <<subject_paper_cache, assigned_paper_urls, council_indices, subject_index,
                               assigned_rows, attempts, day_log>>
           ELSE LET subject == SubjectAt(order, subject_index)
                    councils == councils_map(student_subjects_with_councils, subject)
                IN  IF councils = << >>
                    THEN \* council_indices[subject] % len(councils): ZeroDivisionError
                         /\ pc' = "fault"
                         /\ UNCHANGED <<subject_paper_cache, assigned_paper_urls, council_indices,
                                        subject_index, assigned_rows, attempts, day_log>>
                    ELSE LET r == get_papers_for_subject(
                                      subject_paper_cache, assigned_paper_urls,
                                      student.grade, subject, councils,
                                      council_indices[subject])
                         IN  /\ assigned_paper_urls' = r.tracker
                             /\ subject_paper_cache' =
                                    WithoutPapers(subject_paper_cache, UrlsOf(r.papers))
                             /\ council_indices' =
                                    [council_indices EXCEPT ![subject] = r.index]
                             /\ assigned_rows' = assigned_rows \o
                                    RowsOfDay(student.id, day, subject, r.papers)
                             /\ subject_index' = AdvanceSubjectIndex(subject_index, r.papers)
                             /\ attempts' = r.calls
                             /\ day_log' = Append(day_log,
                                    [day |-> day, subject |-> subject,
                                     start |-> council_indices[subject] % Len(councils),
                                     councils |-> councils,
                                     calls |-> [i \in 1..Len(r.calls) |->
                                                 [op |-> r.calls[i].op,
                                                  urls |-> UrlsOf(r.calls[i].papers),
                                                  lookups |-> r.calls[i].lookups]],
                                     urls |-> UrlsOf(r.papers)])
                             /\ pc' = "loop"
    /\ UNCHANGED <<disk, queue, first_rows, student, input_data, paper_db, persisted,
                   student_subjects_with_councils, all_days,
                   monthly, written>>

\* one iteration of "for day in all_days"; day_log counts the days done
ScheduleDay ==
    /\ pc = "loop"
    /\ Len(day_log) < Len(all_days)
    /\ LET order == subjects_order(student_subjects_with_councils)
           day == all_days[Len(day_log) + 1]
       IN  IF order = << >>
           THEN \* subject_index % len(subjects_order): ZeroDivisionError
                /\ pc' = "fault"
                /\ UNCHANGED <<assigned_paper_urls, council_indices, subject_index,
                               assigned_rows, attempts, day_log>>
           ELSE LET subject == SubjectAt(order, subject_index)
                    councils == councils_map(student_subjects_with_councils, subject)
                IN  IF councils = << >>
                    THEN \* council_indices[subject] % len(councils): ZeroDivisionError
                         /\ pc' = "fault"
                         /\ UNCHANGED <<assigned_paper_urls, council_indices,
                                        subject_index, assigned_rows, attempts, day_log>>
                    ELSE LET r == get_papers_for_subject(
                                      subject_paper_cache, assigned_paper_urls,
                                      student.grade, subject, councils,
                                      council_indices[subject])
                         IN  /\ assigned_paper_urls' = r.tracker
                             /\ council_indices' =
                                    [council_indices EXCEPT ![subject] = r.index]
                             /\ assigned_rows' = assigned_rows \o
                                    RowsOfDay(student.id, day, subject, r.papers)
                             /\ subject_index' = AdvanceSubjectIndex(subject_index, r.papers)
                             /\ attempts' = r.calls
                             /\ day_log' = Append(day_log,
                                    [day |-> day, subject |-> subject,
                                     start |-> council_indices[subject] % Len(councils),
                                     councils |-> councils,
                                     calls |-> [i \in 1..Len(r.calls) |->
                                                 [op |-> r.calls[i].op,
                                                  urls |-> UrlsOf(r.calls[i].papers),
                                                  lookups |-> r.calls[i].lookups]],
                                     urls |-> UrlsOf(r.papers)])
                             /\ pc' = "loop"
    /\ UNCHANGED <<disk, queue, first_rows, student, input_data, paper_db, persisted,
                   student_subjects_with_councils, subject_paper_cache, all_days,
                   monthly, written>>

\* return assigned_rows
ReturnRows ==
    /\ pc = "loop"
    /\ Len(day_log) = Len(all_days)
    /\ pc' = "returned"
    /\ UNCHANGED <<disk, queue, first_rows, student, input_data, paper_db, persisted,
                   student_subjects_with_councils, assigned_paper_urls,
                   subject_paper_cache, all_days, council_indices, subject_index,
                   assigned_rows, attempts, day_log, monthly, written>>

\* StudentDataWriter.write_exam_schedule_record: the row is appended to the file
write_exam_schedule_record(rows, record) == Append(rows, record)

\* for schedule_paper in scheduled_papers: write_exam_schedule_record(...)
WriteRecord ==
    /\ pc = "returned"
    /\ written < Len(assigned_rows)
    /\ persisted' = write_exam_schedule_record(persisted, assigned_rows[written + 1])
    /\ written' = written + 1
    /\ UNCHANGED <<disk, queue, first_rows, student, input_data, paper_db, pc,
                   student_subjects_with_councils, assigned_paper_urls,
                   subject_paper_cache, all_days, council_indices, subject_index,
                   assigned_rows, attempts, day_log, monthly>>

FinishSchedule ==
    /\ pc = "returned"
    /\ written = Len(assigned_rows)
    /\ pc' = "done"
    /\ UNCHANGED <<disk, queue, first_rows, student, input_data, paper_db, persisted,
                   student_subjects_with_councils, assigned_paper_urls,
                   subject_paper_cache, all_days, council_indices, subject_index,
                   assigned_rows, attempts, day_log, monthly, written>>

Next ==
    \/ Construct
    \/ CreateSchedule
    \/ ScheduleDay
    \/ ReturnRows
    \/ WriteRecord
    \/ FinishSchedule

Spec == Init /\ [][Next]_vars

\* the guard of ScheduleDay: the loop has a day left
ScheduleDayEnabled == pc = "loop" /\ Len(day_log) < Len(all_days)

\* the day loop is sequential code: a step of it that can be taken is taken.
\* The second conjunct is WF_vars(ScheduleDay) written out, with the guard of
\* ScheduleDay, which always has a successor, for ENABLED <<ScheduleDay>>_vars
SpecLive ==
    /\ Init /\ [][Next]_vars
    /\ WF_vars(ReturnRows)
    /\ ([]<>~ScheduleDayEnabled \/ []<><<ScheduleDay>>_vars)

(***************************************************************************)
(* SpecComplete: has_complete_schedule of a constructed scheduler, called  *)
(* on the rows assigned_schedules.csv can hold.                            *)
(***************************************************************************)
\* rows of the file: with a paper or placeholders, in and out of the window, on
\* an excluded weekday (08-03-25 is a Saturday), and of another student
FileRows ==
    { [student_id |-> "1", date |-> day, grade |-> "EGCSE", subject |-> Mathematics,
       year |-> 2022, session |-> "November", url |-> "eg/22/Maths Paper 1.pdf"] :
        day \in { <<20, 2, 25>>, <<3, 3, 25>>, <<4, 3, 25>>, <<8, 3, 25>> } }
    \cup { Placeholder("1", day, English) :
        day \in { <<20, 2, 25>>, <<3, 3, 25>>, <<4, 3, 25>> } }
    \cup { [student_id |-> "2", date |-> <<3, 3, 25>>, grade |-> "JC",
            subject |-> Mathematics, year |-> 2022, session |-> "November",
            url |-> "jc/22/Maths Paper 1.pdf"] }
    \cup { [student_id |-> "1", date |-> <<3, 3, 25>>, grade |-> "EGCSE",
            subject |-> Mathematics, year |-> 2022, session |-> "November",
            url |-> "eg/22/Maths Paper 2.pdf"] }

RECURSIVE Files(_)
Files(n) ==
    IF n = 0 THEN { << >> }
    ELSE Files(n - 1) \cup
         { Append(f, r) : f \in { g \in Files(n - 1) : Len(g) = n - 1 }, r \in FileRows }

InitComplete ==
    /\ student = Student("EGCSE", <<Mathematics, English>>)
    /\ input_data \in
            { InputData(<<27, 2, 25>>, n, {}, << >>) : n \in 0..MaxWindow }
            \cup { InputData(<<1, 3, 25>>, n, Weekend, << >>) : n \in 0..MaxWindow }
    /\ paper_db = EmptyDb
    /\ persisted \in Files(MaxPersisted)
    /\ pc = "constructed"
    /\ assigned_paper_urls = load_assigned_paper_urls(persisted, student.id)
    /\ subject_paper_cache = cache_all_subject_papers(paper_db, student.subjects)
    /\ IdleScheduler
    /\ queue = << >>
    /\ first_rows = {}

\* scheduler.has_complete_schedule()
CallHasCompleteSchedule ==
    /\ pc = "constructed"
    /\ attempts' = <<[op |-> "has_complete_schedule",
                      result |-> has_complete_schedule(input_data, persisted,
                                                       student.id)]>>
    /\ pc' = "checked"
    /\ UNCHANGED <<disk, queue, first_rows, student, input_data, paper_db, persisted,
                   student_subjects_with_councils, assigned_paper_urls,
                   subject_paper_cache, all_days, council_indices, subject_index,
                   assigned_rows, day_log, monthly, written>>

NextComplete == CallHasCompleteSchedule

SpecComplete == InitComplete /\ [][NextComplete]_vars

(***************************************************************************)
(* SpecRecords: get_scheduled_records_by_day asked of a scheduler built on *)
(* a schedule file.                                                        *)
(***************************************************************************)
\* sorted(records, key=strptime(date)): a stable insertion of r into a sorted list
InsertByDate(sorted, r) ==
    LET before == { i \in 1..Len(sorted) :
                       ToOrdinal(strptime(sorted[i].date)) <= ToOrdinal(strptime(r.date)) }
        k == Cardinality(before)
    IN  SubSeq(sorted, 1, k) \o <<r>> \o SubSeq(sorted, k + 1, Len(sorted))

RECURSIVE SortByDate(_)
SortByDate(records) ==
    IF records = << >> THEN << >>
    ELSE InsertByDate(SortByDate(SubSeq(records, 1, Len(records) - 1)),
                      records[Len(records)])

\* _get_scheduled_records: the student's rows with a URL, oldest first
get_scheduled_records(rows, id) == SortByDate(ScheduledRecords(rows, id))

RecordsOfDayWithPlaceholders(rows, id, day) ==
    SelectSeq(SortByDate(get_exam_schedules_by_id(rows, id)), LAMBDA r : r.date = day)

get_scheduled_records_by_day(rows, id, day) ==
    SelectSeq(get_scheduled_records(rows, id), LAMBDA r : r.date = day)

\* the days asked for: the days of the file's rows and a day without a row
QueryDays == { r.date : r \in FileRows } \cup { <<27, 2, 25>> }

\* scheduler.get_scheduled_records_by_day(day)
CallGetScheduledRecordsByDay ==
    /\ pc = "constructed"
    /\ \E day \in QueryDays :
          attempts' = <<[op |-> "get_scheduled_records_by_day", day |-> day,
                         result |-> get_scheduled_records_by_day(persisted, student.id,
                                                                 day)]>>
    /\ pc' = "queried"
    /\ UNCHANGED <<disk, queue, first_rows, student, input_data, paper_db, persisted,
                   student_subjects_with_councils, assigned_paper_urls,
                   subject_paper_cache, all_days, council_indices, subject_index,
                   assigned_rows, day_log, monthly, written>>

NextRecords == CallGetScheduledRecordsByDay

SpecRecords == InitComplete /\ [][NextRecords]_vars

(***************************************************************************)
(* SpecBatch: the batch loop of generate_exam_preparation_schedules over   *)
(* the students of the database, grade by grade, run once or twice.        *)
(***************************************************************************)
StudentA == Student("EGCSE", <<Mathematics, English>>)
StudentB == [id |-> "2", grade |-> "JC", subjects |-> <<Mathematics, English>>]

\* for grade in EceswaGrade: for student in students: EGCSE students come first;
\* the longer lists are two runs of the orchestrator over the same database
BatchStudents ==
    { <<StudentA, StudentA>>, <<StudentA, StudentB>>,
      <<StudentA, StudentB, StudentA, StudentB>> }

\* ExamSchedulerDataReader(grade).get_schedule_input_data() of each grade
BatchConfigs ==
    [ EceswaGrades ->
        { NoInputData,
          InputData(<<27, 2, 25>>, 1, {},
                    <<[subject |-> Mathematics, councils |-> <<ECESWA>>]>>) }
        \cup { InputData(<<1, 3, 25>>, n, Weekend, c) :
                  n \in 0..MaxWindow,
                  c \in { <<[subject |-> Mathematics, councils |-> <<ECESWA>>],
                            [subject |-> English, councils |-> <<ECESWA>>]>> } } ]

BatchDbs ==
    { EmptyDb,
      Db(<<"eg/22/Maths Paper 1.pdf">>, <<"eg/22/English Paper 1.pdf">>,
         <<"jc/22/Maths Paper 1.pdf">>, <<"jc/22/English Paper 1.pdf">>, << >>, << >>),
      Db(<<"eg/22/Maths Paper 1.pdf", "eg/22/Maths Paper 2.pdf",
           "eg/21/Maths Paper 1.pdf">>,
         <<"eg/22/English Paper 1.pdf">>,
         <<"jc/21/Maths Paper 1.pdf", "jc/22/Maths Paper 1.pdf">>, << >>,
         << >>, << >>) }

\* the students of the batch, each with the configuration of its grade
Jobs(students, configs) ==
    [i \in 1..Len(students) |->
        [student |-> students[i], input |-> configs[students[i].grade]]]

InitBatch ==
    /\ paper_db \in BatchDbs
    /\ \E students \in BatchStudents, configs \in BatchConfigs :
          /\ student = Jobs(students, configs)[1].student
          /\ input_data = Jobs(students, configs)[1].input
          /\ queue = Tail(Jobs(students, configs))
    /\ persisted \in { << >> } \cup
            { <<PreviousRow(student.id, paper_db, u, <<20, 2, 25>>)>> :
                u \in {"eg/22/Maths Paper 1.pdf"} \cap DbUrls(paper_db) }
    /\ pc = "start"
    /\ assigned_paper_urls = {}
    /\ subject_paper_cache = << >>
    /\ IdleScheduler
    /\ first_rows = {}

\* the next iteration of "for student in students": the loop has no handler for
\* an exception of the body, so it goes on only after a body that returned
NextStudent ==
    /\ pc = "done"
    /\ queue # << >>
    /\ student' = Head(queue).student
    /\ input_data' = Head(queue).input
    /\ queue' = Tail(queue)
    /\ pc' = "start"
    /\ student_subjects_with_councils' = << >>
    /\ assigned_paper_urls' = {}
    /\ subject_paper_cache' = << >>
    /\ all_days' = << >>
    /\ council_indices' = << >>
    /\ subject_index' = 0
    /\ assigned_rows' = << >>
    /\ attempts' = NoCall
    /\ day_log' = << >>
    /\ written' = 0
    /\ UNCHANGED <<disk, paper_db, persisted, monthly, first_rows>>

NextBatch ==
    \/ Next
    \/ NextStudent

SpecBatch == InitBatch /\ [][NextBatch]_vars

\* the loop is sequential code: a step that can be taken is taken
SpecBatchLive == InitBatch /\ [][NextBatch]_vars /\ WF_vars(NextBatch)

(***************************************************************************)
(* SpecTwice: get_new_scheduled_papers_for_student() of a scheduler, and   *)
(* then of a second scheduler constructed while nothing was persisted.     *)
(***************************************************************************)
TwiceInputs ==
    { InputData(<<27, 2, 25>>, n, {}, c) :
        n \in 0..MaxWindow,
        c \in { <<[subject |-> Mathematics, councils |-> <<ECESWA>>],
                  [subject |-> English, councils |-> <<ECESWA>>]>>,
                <<[subject |-> Mathematics, councils |-> <<ECESWA, CAMBRIDGE>>],
                  [subject |-> English, councils |-> <<ECESWA>>]>>,
                <<[subject |-> Mathematics, councils |-> <<CAMBRIDGE, ECESWA>>],
                  [subject |-> English, councils |-> <<CAMBRIDGE>>]>> } }

InitTwice ==
    /\ student \in { Student(g, <<Mathematics, English>>) : g \in EceswaGrades }
    /\ input_data \in TwiceInputs
    /\ paper_db \in RunDbs
    /\ persisted \in { << >> } \cup
            { <<PreviousRow(student.id, paper_db, u, <<20, 2, 25>>)>> :
                u \in PreviousUrls \cap DbUrls(paper_db) }
    /\ pc = "start"
    /\ assigned_paper_urls = {}
    /\ subject_paper_cache = << >>
    /\ IdleScheduler
    /\ queue = << >>
    /\ first_rows = {}

\* the rows of the first scheduler are kept aside, nothing is written, and a
\* second ExamScheduler(student) is about to be constructed
SecondScheduler ==
    /\ pc = "returned"
    /\ written = 0
    /\ first_rows = {}
    /\ first_rows' = {assigned_rows}
    /\ pc' = "start"
    /\ all_days' = << >>
    /\ council_indices' = << >>
    /\ subject_index' = 0
    /\ assigned_rows' = << >>
    /\ attempts' = NoCall
    /\ day_log' = << >>
    /\ UNCHANGED <<disk, queue, student, input_data, paper_db, persisted,
                   student_subjects_with_councils, assigned_paper_urls,
                   subject_paper_cache, monthly, written>>

NextTwice ==
    \/ Construct
    \/ CreateSchedule
    \/ ScheduleDay
    \/ ReturnRows
    \/ SecondScheduler

SpecTwice == InitTwice /\ [][NextTwice]_vars

(***************************************************************************)
(* The download, copy and PDF steps of generate_exam_preparation_schedules *)
(* and the files they read and write.  A Python value that the downloads   *)
(* writer compares carries its type; a path is the tuple of its parts; the *)
(* folder of a student is named by the student's id.                       *)
(***************************************************************************)
PyStr(text) == [type |-> "str", text |-> text]
PyPath(text) == [type |-> "Path", text |-> text]

\* a == b of Python: a str and a Path are never equal
PyEq(a, b) == a.type = b.type /\ a.text = b.text

\* the year column of assigned_schedules.csv, read back as text
YearText(year) ==
    CASE year = 2021 -> "2021" [] year = 2022 -> "2022" [] OTHER -> "0"

\* BASE_DIR / "Resources" / r.grade / r.subject / r.year / r.session / filename
src_path(r) ==
    <<"Resources", r.grade, r.subject, YearText(r.year), r.session, FileName(r.url)>>

\* base_path / student.name / year / month / r.date / r.subject / filename
dest_path(st, r) ==
    <<"Output", st.grade, st.id, strptime(r.date).y, strftime_B(strptime(r.date)),
      r.date, r.subject, FileName(r.url)>>

\* the fields of DownloadedPastPaperMetadata, in declaration order
DownloadHeaders == <<"grade", "subject", "year", "session", "url", "path">>

\* the SchedulePaper get_schedule builds from a scheduled record
SchedulePaper(st, r) ==
    [paper_metadata |->
        [grade |-> PyStr(r.grade), subject |-> PyStr(r.subject),
         year |-> PyStr(YearText(r.year)), session |-> PyStr(r.session),
         url |-> PyStr(r.url), path |-> PyPath(src_path(r))],
     src_path |-> src_path(r),
     dest_path |-> dest_path(st, r)]

\* rank of a month name / of a subject among the strings sorted() compares
AlphabeticalRank(text) ==
    LET sorted == <<"April", "August", "December", "English", "February", "January",
                    "July", "June", "March", "Mathematics", "May", "November",
                    "October", "September">>
    IN  CHOOSE i \in 1..Len(sorted) : sorted[i] = text

\* sorted(grouped.items()) level by level: year, month name, day text, subject,
\* each compared as a string
ScheduleKeyLeq(a, b) ==
    LET ka == <<strptime(a.date).y, AlphabeticalRank(strftime_B(strptime(a.date))),
                a.date[1], a.date[2], a.date[3], AlphabeticalRank(a.subject)>>
        kb == <<strptime(b.date).y, AlphabeticalRank(strftime_B(strptime(b.date))),
                b.date[1], b.date[2], b.date[3], AlphabeticalRank(b.subject)>>
        differ == { i \in 1..6 : ka[i] # kb[i] }
    IN  differ = {} \/ LET i == CHOOSE k \in differ : \A l \in differ : k <= l
                       IN  ka[i] < kb[i]

InsertByScheduleKey(sorted, r) ==
    LET k == Cardinality({ i \in 1..Len(sorted) : ScheduleKeyLeq(sorted[i], r) })
    IN  SubSeq(sorted, 1, k) \o <<r>> \o SubSeq(sorted, k + 1, Len(sorted))

RECURSIVE SortByScheduleKey(_)
SortByScheduleKey(records) ==
    IF records = << >> THEN << >>
    ELSE InsertByScheduleKey(SortByScheduleKey(SubSeq(records, 1, Len(records) - 1)),
                             records[Len(records)])

\* scheduler.get_exam_schedule_papers(): the papers of get_schedule(), month by
\* month, day by day, subject by subject
get_exam_schedule_papers(rows, st) ==
    LET records == SortByScheduleKey(get_scheduled_records(rows, st.id))
    IN  [i \in 1..Len(records) |-> SchedulePaper(st, records[i])]

\* ExamSchedulerDataReader.get_downloaded_paper_metadata_records: the url column
DownloadedUrls(file) == { file[i].url.text : i \in 1..Len(file) }

\* scheduler.schedule_written_to_database()
schedule_written_to_database(rows, st, file) ==
    load_assigned_paper_urls(rows, st.id) \subseteq DownloadedUrls(file)

SomePaperInSrcDir(rows, st, src) ==
    \E i \in 1..Len(get_exam_schedule_papers(rows, st)) :
        get_exam_schedule_papers(rows, st)[i].src_path \in src

\* scheduler.papers_exist_in_src_dir()
papers_exist_in_src_dir(rows, st, src) ==
    \A i \in 1..Len(get_exam_schedule_papers(rows, st)) :
        get_exam_schedule_papers(rows, st)[i].src_path \in src

\* scheduler.schedule_copied_to_output_dir(); every file name ends in .pdf
schedule_copied_to_output_dir(rows, st, out) ==
    { get_exam_schedule_papers(rows, st)[i].dest_path :
         i \in 1..Len(get_exam_schedule_papers(rows, st)) } \subseteq out

\* csv.DictWriter.writerow: every field is written as its text
CsvRow(record) == [k \in Range(DownloadHeaders) |-> PyStr(record[k].text)]

\* the duplicate test of the writer: a row read back from the file equals the
\* record field by field under Python's ==
RecordExists(file, record) ==
    \E i \in 1..Len(file) :
        \A k \in Range(DownloadHeaders) : PyEq(file[i][k], record[k])

\* ExamSchedulerDataWriter.write_downloaded_paper_metadata_record
write_downloaded_paper_metadata_record(file, record) ==
    IF RecordExists(file, record)
    THEN [file |-> file, result |-> FALSE]
    ELSE [file |-> Append(file, CsvRow(record)), result |-> TRUE]

\* what the network does to one download
DownloadOutcomes == {"saved", "failed", "partial"}

\* LibUtils.download_file: a file that exists is not fetched again; a fetch
\* that fails may leave a partial file behind
download_file(src, path, outcome) ==
    IF path \in src THEN [ok |-> TRUE, src |-> src]
    ELSE IF outcome = "saved" THEN [ok |-> TRUE, src |-> src \cup {path}]
    ELSE IF outcome = "partial" THEN [ok |-> FALSE, src |-> src \cup {path}]
    ELSE [ok |-> FALSE, src |-> src]

\* for p in progress: if download_pure(...): write_downloaded_paper_metadata_record(...)
RECURSIVE DownloadLoop(_, _, _, _, _)
DownloadLoop(papers, i, outcomes, src, file) ==
    IF i > Len(papers) THEN [src |-> src, file |-> file]
    ELSE LET d == download_file(src, papers[i].src_path, outcomes[i])
         IN  DownloadLoop(papers, i + 1, outcomes, d.src,
                 IF d.ok
                 THEN write_downloaded_paper_metadata_record(
                          file, papers[i].paper_metadata).file
                 ELSE file)

\* ScheduleGenerator.save_schedule_to_disk with LibUtils.copy_file: a source
\* that is missing is reported and skipped
save_schedule_to_disk(papers, src, out) ==
    out \cup { papers[i].dest_path : i \in { k \in 1..Len(papers) :
                                               papers[k].src_path \in src } }

(***************************************************************************)
(* SpecDownloads: write_downloaded_paper_metadata_record called again and  *)
(* again on downloaded_past_papers.csv.                                    *)
(***************************************************************************)
DownloadRows ==
    { [student_id |-> "1", date |-> <<3, 3, 25>>, grade |-> "EGCSE",
       subject |-> Mathematics, year |-> YearOf(u), session |-> SessionOf(u),
       url |-> u] :
        u \in {"eg/22/Maths Paper 1.pdf", "eg/22/Maths Paper 2.pdf",
               "eg/21/Maths Paper 1.pdf"} }
    \cup { [student_id |-> "1", date |-> <<4, 3, 25>>, grade |-> "EGCSE",
            subject |-> English, year |-> 2022, session |-> "November",
            url |-> "eg/22/English Paper 1.pdf"] }

\* the records handed to the writer: those get_schedule builds, whose path is
\* a Path, and those the downloads reader builds from a row, whose path is text
DownloadRecords ==
    { SchedulePaper(Student("EGCSE", <<Mathematics, English>>), r).paper_metadata :
         r \in DownloadRows }
    \cup { CsvRow(SchedulePaper(Student("EGCSE", <<Mathematics, English>>),
                                r).paper_metadata) : r \in DownloadRows }

InitDownloads ==
    /\ student = Student("EGCSE", <<Mathematics, English>>)
    /\ input_data = NoInputData
    /\ paper_db = EmptyDb
    /\ persisted = << >>
    /\ pc = "writer"
    /\ assigned_paper_urls = {}
    /\ subject_paper_cache = << >>
    /\ IdleScheduler
    /\ queue = << >>
    /\ first_rows = {}

\* schedule_writer.write_downloaded_paper_metadata_record(record)
CallWriteDownloaded ==
    /\ pc = "writer"
    /\ Len(downloaded_papers) < MaxWrites
    /\ \E record \in DownloadRecords :
          LET w == write_downloaded_paper_metadata_record(downloaded_papers, record)
          IN  /\ downloaded_papers' = w.file
              /\ attempts' = <<[op |-> "write_downloaded_paper_metadata_record",
                                record |-> record, before |-> downloaded_papers,
                                result |-> w.result]>>
    /\ UNCHANGED <<src_dir, output_dir, pdf_dir, steps, queue, first_rows, student,
                   input_data, paper_db, persisted, pc,
                   student_subjects_with_councils, assigned_paper_urls,
                   subject_paper_cache, all_days, council_indices, subject_index,
                   assigned_rows, day_log, monthly, written>>

NextDownloads == CallWriteDownloaded

SpecDownloads == InitDownloads /\ [][NextDownloads]_vars

(***************************************************************************)
(* SpecOrch: the body of "for student in students" with its four helpers,  *)
(* student after student.                                                  *)
(***************************************************************************)
\* download_papers_write_metadata_helper
DownloadPapers ==
    /\ pc = "done"
    /\ LET papers == get_exam_schedule_papers(persisted, student)
           ran == \/ ~schedule_written_to_database(persisted, student,
                                                   downloaded_papers)
                  \/ ~papers_exist_in_src_dir(persisted, student, src_dir)
       IN  /\ IF ran
              THEN \E outcomes \in [1..Len(papers) -> DownloadOutcomes] :
                      LET r == DownloadLoop(papers, 1, outcomes, src_dir,
                                            downloaded_papers)
                      IN  /\ src_dir' = r.src
                          /\ downloaded_papers' = r.file
              ELSE UNCHANGED <<src_dir, downloaded_papers>>
           /\ steps' = Append(steps, HelperCall(student.id, "download", ran))
    /\ pc' = "downloaded"
    /\ UNCHANGED <<output_dir, pdf_dir, queue, first_rows, student, input_data,
                   paper_db, persisted, student_subjects_with_councils,
                   assigned_paper_urls, subject_paper_cache, all_days,
                   council_indices, subject_index, assigned_rows, attempts,
                   day_log, monthly, written>>

\* generator = ScheduleGenerator(scheduler.get_schedule()); copy_schedule_helper
CopySchedule ==
    /\ pc = "downloaded"
    /\ LET papers == get_exam_schedule_papers(persisted, student)
           ran == /\ ~schedule_copied_to_output_dir(persisted, student, output_dir)
                  /\ papers_exist_in_src_dir(persisted, student, src_dir)
       IN  /\ output_dir' = IF ran
                            THEN save_schedule_to_disk(papers, src_dir, output_dir)
                            ELSE output_dir
           /\ steps' = Append(steps, HelperCall(student.id, "copy", ran))
    /\ pc' = "copied"
    /\ UNCHANGED <<downloaded_papers, src_dir, pdf_dir, queue, first_rows, student,
                   input_data, paper_db, persisted, student_subjects_with_councils,
                   assigned_paper_urls, subject_paper_cache, all_days,
                   council_indices, subject_index, assigned_rows, attempts,
                   day_log, monthly, written>>

\* generate_pdf: generate_pdf_schedule takes min() and max() of the days of the
\* schedule, a ValueError when the schedule has no paper
GeneratePdf ==
    /\ pc = "copied"
    /\ LET papers == get_exam_schedule_papers(persisted, student)
           ran == student.id \notin pdf_dir
       IN  /\ IF ~ran
              THEN pc' = "pdf_done" /\ UNCHANGED pdf_dir
              ELSE IF papers = << >>
              THEN pc' = "fault" /\ UNCHANGED pdf_dir
              ELSE pc' = "pdf_done" /\ pdf_dir' = pdf_dir \cup {student.id}
           /\ steps' = Append(steps, HelperCall(student.id, "pdf", ran))
    /\ UNCHANGED <<downloaded_papers, src_dir, output_dir, queue, first_rows, student,
                   input_data, paper_db, persisted, student_subjects_with_councils,
                   assigned_paper_urls, subject_paper_cache, all_days,
                   council_indices, subject_index, assigned_rows, attempts,
                   day_log, monthly, written>>

\* the next iteration of "for student in students", after the four helpers
NextStudentAfterPdf ==
    /\ pc = "pdf_done"
    /\ queue # << >>
    /\ student' = Head(queue).student
    /\ input_data' = Head(queue).input
    /\ queue' = Tail(queue)
    /\ pc' = "start"
    /\ student_subjects_with_councils' = << >>
    /\ assigned_paper_urls' = {}
    /\ subject_paper_cache' = << >>
    /\ all_days' = << >>
    /\ council_indices' = << >>
    /\ subject_index' = 0
    /\ assigned_rows' = << >>
    /\ attempts' = NoCall
    /\ day_log' = << >>
    /\ written' = 0
    /\ UNCHANGED <<disk, paper_db, persisted, monthly, first_rows>>

OrchStudents == { <<StudentA, StudentA>>, <<StudentA, StudentB>> }

OrchConfigs ==
    [ EceswaGrades ->
        { NoInputData }
        \cup { InputData(<<1, 3, 25>>, n, Weekend,
                         <<[subject |-> Mathematics, councils |-> <<ECESWA>>],
                           [subject |-> English, councils |-> <<ECESWA>>]>>) :
                  n \in {2, 4} } ]

InitOrch ==
    /\ paper_db \in BatchDbs
    /\ \E students \in OrchStudents, configs \in OrchConfigs :
          /\ student = Jobs(students, configs)[1].student
          /\ input_data = Jobs(students, configs)[1].input
          /\ queue = Tail(Jobs(students, configs))
    /\ persisted = << >>
    /\ pc = "start"
    /\ assigned_paper_urls = {}
    /\ subject_paper_cache = << >>
    /\ IdleScheduler
    /\ first_rows = {}

NextOrch ==
    \/ Construct
    \/ CreateSchedule
    \/ ScheduleDay
    \/ ReturnRows
    \/ WriteRecord
    \/ FinishSchedule
    \/ DownloadPapers
    \/ CopySchedule
    \/ GeneratePdf
    \/ NextStudentAfterPdf

SpecOrch == InitOrch /\ [][NextOrch]_vars

(***************************************************************************)
(* Properties of the calendar expansion (SpecCal).                         *)
(***************************************************************************)
\* The weekday name computed from the civil date alone (Sakamoto's rule).
CivilWeekday(date) ==
    LET t == <<0, 3, 2, 5, 0, 3, 5, 1, 4, 6, 2, 4>>
        y == IF date.m < 3 THEN date.y - 1 ELSE date.y
        w == (y + (y \div 4) - (y \div 100) + (y \div 400) + t[date.m] + date.d) % 7
    IN  <<"Sunday", "Monday", "Tuesday", "Wednesday", "Thursday", "Friday",
          "Saturday">>[w + 1]

\* Day by day: every civil date of the window whose weekday is not excluded.
BruteForceDates(inp) ==
    LET s == strptime(inp.start_date)
        e == strptime(inp.end_date)
    IN  { dt \in [y : s.y..e.y, m : 1..12, d : 1..31] :
            /\ dt.d <= DaysInMonth(dt.y, dt.m)
            /\ DateLeq(s, dt) /\ DateLeq(dt, e)
            /\ CivilWeekday(dt) \notin inp.excluded_days }

MonthlyDays == Flatten([i \in 1..Len(monthly) |-> monthly[i].days])

\* C2: for start_date <= end_date and any set of excluded weekday names the
\* expansion yields exactly the days of the window whose weekday is not
\* excluded: none excluded, none twice, as many as the day-by-day count, and
\* none at all when the seven weekdays are excluded.
C2_CalendarExpansion ==
    pc = "calendar_done" =>
        /\ NoDuplicates(MonthlyDays)
        /\ Range(MonthlyDays) = { strftime_dmy(dt) : dt \in BruteForceDates(input_data) }
        /\ Len(MonthlyDays) = Cardinality(BruteForceDates(input_data))
        /\ \A i \in 1..Len(MonthlyDays) :
              CivilWeekday(strptime(MonthlyDays[i])) \notin input_data.excluded_days
        /\ Range(MonthlyDays) = get_all_days(input_data)
        /\ (input_data.excluded_days = Range(WeekdayNames) => MonthlyDays = << >>)

\* A window over the end of February 2024 with weekends excluded was expanded.
C2_Witness ==
    /\ pc = "calendar_done"
    /\ input_data.start_date = <<27, 2, 24>>
    /\ input_data.excluded_days = {"Saturday", "Sunday"}
    /\ Len(monthly) = 2
    /\ Len(MonthlyDays) = 5
    /\ <<29, 2, 24>> \in Range(MonthlyDays)

(***************************************************************************)
(* Properties of the selection engine (SpecLookup).                        *)
(***************************************************************************)
LastCall == attempts[Len(attempts)]

CalledOp(op) == attempts # NoCall /\ LastCall.op = op

CallCatalog(c) == CacheGet(subject_paper_cache, c.subject, c.grade)

\* the papers of the catalog that share the group key of paper p, in catalog order
EceswaGroupOf(catalog, p) ==
    SelectSeq(catalog, LAMBDA q : eceswa_group_key(q) = eceswa_group_key(p))

CambridgeGroupOf(catalog, p) ==
    SelectSeq(catalog, LAMBDA q : extract_group_key(q) = extract_group_key(p))

FreeOf(group, tracker) == \A i \in 1..Len(group) : group[i].url \notin tracker

\* year descending, then paper number ascending with a missing number as 0
EarlierEceswaGroup(p, q) ==
    LET np == IF extract_paper_number(p.url) = {} THEN 0
              ELSE CHOOSE n \in extract_paper_number(p.url) : TRUE
        nq == IF extract_paper_number(q.url) = {} THEN 0
              ELSE CHOOSE n \in extract_paper_number(q.url) : TRUE
    IN  p.year > q.year \/ (p.year = q.year /\ np < nq)

EceswaFirstFree(catalog, before, papers) ==
    IF papers = << >>
    THEN \A i \in 1..Len(catalog) : ~FreeOf(EceswaGroupOf(catalog, catalog[i]), before)
    ELSE /\ papers = EceswaGroupOf(catalog, papers[1])
         /\ FreeOf(papers, before)
         /\ \A i \in 1..Len(catalog) :
              FreeOf(EceswaGroupOf(catalog, catalog[i]), before)
                  => ~EarlierEceswaGroup(catalog[i], papers[1])

\* the pick the example of years {2021, 2022} x Papers {1, 2} prescribes
FourPapersPick(before) ==
    IF "eg/22/Maths Paper 1.pdf" \notin before THEN <<"eg/22/Maths Paper 1.pdf">>
    ELSE IF "eg/22/Maths Paper 2.pdf" \notin before THEN <<"eg/22/Maths Paper 2.pdf">>
    ELSE IF "eg/21/Maths Paper 1.pdf" \notin before THEN <<"eg/21/Maths Paper 1.pdf">>
    ELSE IF "eg/21/maths_paper2.pdf" \notin before THEN <<"eg/21/maths_paper2.pdf">>
    ELSE << >>

\* the trackers a run of picks from the empty tracker goes through
FourPapersChain ==
    { {}, {"eg/22/Maths Paper 1.pdf"},
      {"eg/22/Maths Paper 1.pdf", "eg/22/Maths Paper 2.pdf"},
      {"eg/22/Maths Paper 1.pdf", "eg/22/Maths Paper 2.pdf", "eg/21/Maths Paper 1.pdf"} }

\* C4: the ECESWA lookup returns the first group, in the order year descending
\* then paper number ascending (a missing number counts as 0), all of whose URLs
\* are absent from the tracker; with years {2021, 2022} x Papers {1, 2} and an
\* empty tracker the picks are (2022, 1), (2022, 2), (2021, 1), (2021, 2).
C4_EceswaFirstUnassignedGroup ==
    CalledOp("eceswa") =>
        LET c == LastCall
            catalog == CallCatalog(c)
        IN  /\ EceswaFirstFree(catalog, c.before, c.papers)
            /\ (UrlsOf(catalog) = FourPapers /\ c.before \in FourPapersChain)
                  => /\ [i \in 1..Len(c.papers) |-> c.papers[i].url] = FourPapersPick(c.before)
                     /\ c.after = c.before \cup Range(FourPapersPick(c.before))

\* The third pick of the example: 2022 is used up and (2021, Paper 1) is picked
\* from a catalog that lists the 2021 papers before the 2022 ones.
C4_Witness ==
    /\ CalledOp("eceswa")
    /\ UrlsOf(CallCatalog(LastCall)) = FourPapers
    /\ CallCatalog(LastCall)[1].year = 2021
    /\ LastCall.before = {"eg/22/Maths Paper 1.pdf", "eg/22/Maths Paper 2.pdf"}
    /\ UrlsOf(LastCall.papers) = {"eg/21/Maths Paper 1.pdf"}

FirstPosition(catalog, p) ==
    CHOOSE i \in 1..Len(catalog) :
        /\ extract_group_key(catalog[i]) = extract_group_key(p)
        /\ \A j \in 1..(i - 1) : extract_group_key(catalog[j]) # extract_group_key(p)

\* C6: the Cambridge lookup returns the first group, in the order in which the
\* group keys first appear in the catalog list, none of whose URLs is in the
\* tracker, and the empty list only when every group has a URL in the tracker.
C6_CambridgeFirstInCatalogOrder ==
    CalledOp("cambridge") =>
        LET c == LastCall
            catalog == CallCatalog(c)
        IN  IF c.papers = << >>
            THEN \A i \in 1..Len(catalog) :
                    ~FreeOf(CambridgeGroupOf(catalog, catalog[i]), c.before)
            ELSE /\ c.papers = CambridgeGroupOf(catalog, c.papers[1])
                 /\ FreeOf(c.papers, c.before)
                 /\ \A i \in 1..Len(catalog) :
                      FreeOf(CambridgeGroupOf(catalog, catalog[i]), c.before)
                          => FirstPosition(catalog, c.papers[1])
                                <= FirstPosition(catalog, catalog[i])

\* A 2021 group listed first was returned although a free 2022 group follows it.
C6_Witness ==
    /\ CalledOp("cambridge")
    /\ LastCall.papers # << >>
    /\ LastCall.papers[1].year = 2021
    /\ \E i \in 1..Len(CallCatalog(LastCall)) :
          /\ CallCatalog(LastCall)[i].year = 2022
          /\ CallCatalog(LastCall)[i].url \notin LastCall.before

\* C8: when every URL of a subject's non-empty catalog for an ECESWA grade is in
\* the tracker, the next _get_next_eceswa_with_reset call for that subject and
\* grade returns a non-empty group, after one pool reset.
C8_ExhaustionReset ==
    CalledOp("eceswa_with_reset") =>
        LET c == LastCall
            catalog == CallCatalog(c)
        IN  (catalog # << >> /\ UrlsOf(catalog) \subseteq c.before)
                => /\ c.papers # << >>
                   /\ c.reset
                   /\ UrlsOf(c.papers) \subseteq UrlsOf(catalog)
                   /\ UrlsOf(c.papers) \subseteq c.after

\* An exhausted pool of at least two papers was reset and a group returned.
C8_Witness ==
    /\ CalledOp("eceswa_with_reset")
    /\ Len(CallCatalog(LastCall)) >= 2
    /\ UrlsOf(CallCatalog(LastCall)) \subseteq LastCall.before
    /\ LastCall.reset
    /\ LastCall.papers # << >>

\* C9: the Cambridge lookup never removes a URL from the tracker, and once every
\* Cambridge group of the subject has been assigned each further Cambridge
\* lookup returns the empty list and leaves the tracker unchanged.
C9_CambridgeNeverResets ==
    CalledOp("cambridge") =>
        LET c == LastCall
            catalog == CallCatalog(c)
        IN  /\ c.before \subseteq c.after
            /\ ~c.reset
            /\ UrlsOf(catalog) \subseteq c.before
                  => c.papers = << >> /\ c.after = c.before

\* A Cambridge lookup on a fully assigned, non-empty catalog returned nothing.
C9_Witness ==
    /\ CalledOp("cambridge")
    /\ Len(CallCatalog(LastCall)) >= 2
    /\ UrlsOf(CallCatalog(LastCall)) \subseteq LastCall.before
    /\ LastCall.papers = << >>
    /\ LastCall.after = LastCall.before


(***************************************************************************)
(* Properties of the scheduling run (Spec).                                *)
(***************************************************************************)
\* the non-empty URLs of a list of rows, in order
RowUrls(rows) ==
    LET with_url == SelectSeq(rows, LAMBDA r : r.url # "")
    IN  [i \in 1..Len(with_url) |-> with_url[i].url]

\* C1: after get_new_scheduled_papers_for_student() has run on a scheduler whose
\* tracker was loaded from the persisted rows, the persisted rows together with
\* the returned rows hold every non-empty URL at most once.
C1_NoUrlTwice ==
    (pc = "returned" /\ written = 0) =>
        NoDuplicates(RowUrls(get_exam_schedules_by_id(persisted, student.id)
                             \o assigned_rows))

ChronologicallyBefore(a, b) == ToOrdinal(strptime(a)) < ToOrdinal(strptime(b))

\* C3: the k-th valid day in chronological order (k from 0) is given the subject
\* at position k mod n of the fixed subject order, and the position advances by
\* exactly one per day whether or not a paper was found.
C3_RoundRobinSubjects ==
    pc \in {"loop", "returned", "done"} /\ day_log # << >> =>
        LET order == subjects_order(student_subjects_with_councils)
        IN  /\ subject_index = Len(day_log)
            /\ Range(all_days) = { strftime_dmy(dt) : dt \in BruteForceDates(input_data) }
            /\ \A i \in 1..(Len(all_days) - 1) :
                  ChronologicallyBefore(all_days[i], all_days[i + 1])
            /\ \A k \in 0..(Len(day_log) - 1) :
                  /\ day_log[k + 1].day = all_days[k + 1]
                  /\ day_log[k + 1].subject = order[(k % Len(order)) + 1]
                  /\ \A i \in 1..Len(assigned_rows) :
                        assigned_rows[i].date = day_log[k + 1].day
                            => assigned_rows[i].subject = day_log[k + 1].subject

\* Three days were scheduled for two subjects, the second day without a paper.
C3_Witness ==
    /\ pc = "loop"
    /\ Len(day_log) = 3
    /\ day_log[1].subject = Mathematics /\ day_log[1].urls # {}
    /\ day_log[2].subject = English /\ day_log[2].urls = {}
    /\ day_log[3].subject = Mathematics

\* p and q share grade, subject, year and session, and their URLs differ only
\* by the _qp_ / _in_ marker of the file name
QpInPair(p, q) ==
    LET tp == UrlTokens[p.url]
        tq == UrlTokens[q.url]
    IN  /\ p.grade = q.grade /\ p.subject = q.subject
        /\ p.year = q.year /\ p.session = q.session
        /\ Len(tp) = Len(tq)
        /\ \E i \in 2..(Len(tp) - 1) :
              /\ tp[i] = "qp" /\ tq[i] = "in"
              /\ tp[i - 1] = "_" /\ tp[i + 1] = "_"
              /\ \A j \in (i + 1)..Len(tp) : tp[j] # "/"
              /\ \A j \in 1..Len(tp) : j # i => tp[j] = tq[j]

DatesOf(url) == { assigned_rows[i].date : i \in { k \in 1..Len(assigned_rows) :
                                                    assigned_rows[k].url = url } }

\* C5: a Cambridge question paper and its insert (same grade, subject, year and
\* session, differing only by the qp/in marker) are in the same group: every
\* lookup returns both or neither, and a run assigns them on the same days.
C5_QuestionPaperWithInsert ==
    pc \in {"loop", "returned", "done"} =>
        \A subject \in DOMAIN subject_paper_cache :
            \A p, q \in Range(CacheGet(subject_paper_cache, subject, IGCSE)) :
                QpInPair(p, q) =>
                    /\ \A i \in 1..Len(attempts) :
                          /\ p.url \in UrlsOf(attempts[i].papers)
                                <=> q.url \in UrlsOf(attempts[i].papers)
                          /\ p.url \in UrlsOf(attempts[i].papers)
                                => {p.url, q.url} \subseteq attempts[i].after
                    /\ \A k \in 1..Len(day_log) :
                          p.url \in day_log[k].urls <=> q.url \in day_log[k].urls
                    /\ DatesOf(p.url) = DatesOf(q.url)

\* The insert is listed first and the question paper third; one day got both.
C5_Witness ==
    /\ pc = "returned"
    /\ \E i, j \in 1..Len(assigned_rows) :
          /\ assigned_rows[i].url = "ig/0580_s21_in_12.pdf"
          /\ assigned_rows[j].url = "ig/0580_s21_qp_12.pdf"
          /\ assigned_rows[i].date = assigned_rows[j].date
    /\ CacheGet(subject_paper_cache, Mathematics, IGCSE)[2].url = "ig/0580_s21_ms_12.pdf"

\* the tracker a lookup chose its group from: the one it was called with, or
\* that one after the pool reset
TrackerAtChoice(c) ==
    IF c.reset THEN reset_eceswa_assigned_urls(subject_paper_cache, c.before, c.grade)
    ELSE c.before

\* C7: group selection is all-or-nothing: when a lookup returns a group, all its
\* URLs are in the tracker on return and none was when the group was chosen, and
\* the tracker never holds only part of a group selected during this run.
C7_AllOrNothing ==
    pc \in {"loop", "returned", "done"} =>
        /\ \A i \in 1..Len(attempts) :
              attempts[i].papers # << >> =>
                  /\ UrlsOf(attempts[i].papers) \subseteq attempts[i].after
                  /\ UrlsOf(attempts[i].papers) \cap TrackerAtChoice(attempts[i]) = {}
        /\ \A k \in 1..Len(day_log) :
              \/ day_log[k].urls \subseteq assigned_paper_urls
              \/ day_log[k].urls \cap assigned_paper_urls = {}

\* A group of two URLs was selected and, later in the run, a pool reset of
\* another subject's lookup evicted it as a whole.
C7_Witness ==
    /\ pc = "loop"
    /\ \E k \in 1..Len(day_log) :
          /\ Cardinality(day_log[k].urls) = 2
          /\ day_log[k].urls \cap assigned_paper_urls = {}
    /\ \E i \in 1..Len(attempts) :
          /\ attempts[i].reset
          /\ attempts[i].papers # << >>
          /\ attempts[i].subject = English

BothCouncils(d) == {ECESWA, CAMBRIDGE} \subseteq Range(d.councils)

\* C10 as claimed: for an EGCSE student and a subject with both councils, on every
\* day of the subject the ECESWA lookup is tried first, and a Cambridge group is
\* assigned only if the ECESWA lookup returned nothing on that day.
C10_EceswaAlwaysFirst ==
    student.grade = "EGCSE" =>
        \A k \in 1..Len(day_log) :
            BothCouncils(day_log[k]) =>
                LET calls == day_log[k].calls
                IN  /\ calls[1].op = "eceswa_with_reset"
                    /\ (\E i \in 1..Len(calls) :
                            calls[i].op = "cambridge" /\ calls[i].urls # {})
                          => \E j \in 1..Len(calls) :
                                calls[j].op = "eceswa_with_reset" /\ calls[j].urls = {}

OpOf(council) == IF council = CAMBRIDGE THEN "cambridge" ELSE "eceswa_with_reset"

\* C10 as amended: the councils are tried in cyclic list order starting at the
\* subject's council index, which is the position after the council that last
\* yielded papers; a Cambridge group is assigned on a day only if every lookup
\* tried before it on that day, the ECESWA one included, returned nothing.
C10_CyclicCouncilOrder ==
    student.grade = "EGCSE" =>
        \A k \in 1..Len(day_log) :
            BothCouncils(day_log[k]) =>
                LET d == day_log[k]
                    n == Len(d.councils)
                    earlier == { j \in 1..(k - 1) : day_log[j].subject = d.subject }
                IN  /\ d.calls # << >> /\ Len(d.calls) <= n
                    /\ d.start \in 0..(n - 1)
                    /\ earlier = {} => d.start = 0
                    /\ \A i \in 1..Len(d.calls) :
                          d.calls[i].op = OpOf(d.councils[((d.start + i - 1) % n) + 1])
                    /\ \A i \in 1..Len(d.calls) :
                          d.calls[i].urls # {}
                              => /\ i = Len(d.calls)
                                 /\ d.urls = d.calls[i].urls
                                 /\ \A j \in 1..(i - 1) : d.calls[j].urls = {}
                    /\ (d.calls[Len(d.calls)].urls = {}) => Len(d.calls) = n /\ d.urls = {}

\* On one day the ECESWA lookup came first, returned nothing, and a Cambridge
\* group was assigned; on another day of the subject Cambridge came first.
C10_Witness ==
    /\ student.grade = "EGCSE"
    /\ \E k \in 1..Len(day_log) :
          /\ day_log[k].councils = <<ECESWA, CAMBRIDGE>>
          /\ Len(day_log[k].calls) = 2
          /\ day_log[k].calls[1].op = "eceswa_with_reset"
          /\ day_log[k].calls[1].urls = {}
          /\ day_log[k].calls[2].urls # {}
    /\ \E k \in 1..Len(day_log) :
          /\ day_log[k].councils = <<ECESWA, CAMBRIDGE>>
          /\ day_log[k].calls[1].op = "cambridge"

\* C11 as claimed: for a JC student no Cambridge IGCSE lookup is performed and no
\* IGCSE paper is placed in the schedule, whatever councils the configuration
\* lists for the subject.
C11_JcOnlyNativeCouncil ==
    student.grade = "JC" =>
        /\ \A k \in 1..Len(day_log) :
              \A i \in 1..Len(day_log[k].calls) : day_log[k].calls[i].op # "cambridge"
        /\ \A i \in 1..Len(assigned_rows) : assigned_rows[i].grade # IGCSE

(***************************************************************************)
(* Properties of has_complete_schedule (SpecComplete).                     *)
(***************************************************************************)
\* the days on which the file holds a paper (a row with a URL) for the student
AssignedDays ==
    { persisted[i].date : i \in { k \in 1..Len(persisted) :
          persisted[k].student_id = student.id /\ persisted[k].url # "" } }

\* the valid days of the window, enumerated day by day
ValidDays == { strftime_dmy(dt) : dt \in BruteForceDates(input_data) }

HasCompleteResult == attempts[1].result

C13_CompleteOnlyWhenEveryDayCovered ==
    pc = "checked" => (HasCompleteResult => ValidDays \subseteq AssignedDays)

(***************************************************************************)
(* Properties of the batch loop (SpecBatch).                               *)
(***************************************************************************)
\* the file as the current student's scheduler found it: without the rows the
\* orchestrator has written for this student since
PersistedAtCheck == SubSeq(persisted, 1, Len(persisted) - written)

\* the days of the valid-day set on which that file held a paper of the student
AssignedDaysAtCheck ==
    { PersistedAtCheck[i].date : i \in { k \in 1..Len(PersistedAtCheck) :
          /\ PersistedAtCheck[k].student_id = student.id
          /\ PersistedAtCheck[k].url # "" } }

CompleteAtCheck ==
    AssignedDaysAtCheck # {} /\ AssignedDaysAtCheck \subseteq ValidDays

\* C14: when the schedule of a student is complete, the creation step neither
\* runs get_new_scheduled_papers_for_student() nor writes a row: the step ends
\* with the persisted rows as it found them, also on a second run of the batch.
C14_CompleteStudentIsSkipped ==
    (pc \in {"loop", "returned", "done"} /\ CompleteAtCheck) =>
        /\ pc = "done"
        /\ day_log = << >>
        /\ assigned_rows = << >>
        /\ written = 0
        /\ persisted = PersistedAtCheck

\* A second run of the batch reached a student whose rows of the first run make
\* the schedule complete, and skipped it.
C14_Witness ==
    /\ pc = "done"
    /\ CompleteAtCheck
    /\ written = 0
    /\ Len(ScheduledRecords(persisted, student.id)) >= 2
    /\ \E i \in 1..Len(persisted) : persisted[i].url = ""

C16_WriterRejectsDuplicates ==
    \A i, j \in 1..Len(persisted) :
        (i # j /\ persisted[i].student_id = persisted[j].student_id) =>
            /\ persisted[i] # persisted[j]
            /\ persisted[i].url # "" => persisted[i].url # persisted[j].url

\* C17 as claimed: when the configuration of a student's grade is missing,
\* nothing is persisted for that student and the batch loop goes on: every
\* student still waiting in the batch is reached.
C17_MissingConfigSkipsOnlyThatStudent ==
    /\ []((pc = "fault" /\ input_data = NoInputData) => written = 0)
    /\ ((pc = "fault" /\ input_data = NoInputData) ~> (queue = << >>))

(***************************************************************************)
(* Further properties of the scheduling run (Spec).                        *)
(***************************************************************************)
\* the subject has no paper under any grade key of the catalog files
CatalogEmpty(subject) ==
    \A g \in GradeKeys : CacheGet(subject_paper_cache, subject, g) = << >>

RowsOn(day) == SelectSeq(assigned_rows, LAMBDA r : r.date = day)

\* C18: an empty catalog is never fatal: on the day of a subject without any
\* paper every lookup returns the empty list, the day gets the single
\* placeholder row of that subject, and the loop goes on; the loop fails only
\* on a configuration without subjects or without councils.
C18_EmptyCatalogNotFatal ==
    /\ \A k \in 1..Len(day_log) :
          CatalogEmpty(day_log[k].subject) =>
              /\ day_log[k].calls # << >>
              /\ \A i \in 1..Len(day_log[k].calls) : day_log[k].calls[i].urls = {}
              /\ day_log[k].urls = {}
              /\ RowsOn(day_log[k].day) =
                    <<Placeholder(student.id, day_log[k].day, day_log[k].subject)>>
              /\ subject_index >= k
              /\ (k < Len(all_days) /\ pc = "returned") => Len(day_log) > k
    /\ (pc = "fault" /\ input_data # NoInputData) =>
          LET order == subjects_order(student_subjects_with_councils)
          IN  \/ order = << >>
              \/ councils_map(student_subjects_with_councils,
                              SubjectAt(order, subject_index)) = << >>

\* Mathematics got a paper, English, which has no paper anywhere, got a
\* placeholder the next day, and Mathematics got a paper again the day after.
C18_Witness ==
    /\ Len(day_log) >= 3
    /\ day_log[1].urls # {}
    /\ day_log[2].subject = English /\ CatalogEmpty(English)
    /\ day_log[3].urls # {}

\* the position (from 0) of a valid day among the valid days, in time order
RankOfDay(day) ==
    Cardinality({ d \in ValidDays : ChronologicallyBefore(d, day) })

\* C19: the returned rows are in chronological order, their dates are exactly
\* the valid days, every row of a day carries the day's round-robin subject, and
\* a day has one placeholder row (empty url, year 0) exactly when no paper was
\* selected for it, and otherwise only rows with a paper.
C19_EveryValidDayHasItsSubject ==
    pc = "returned" =>
        LET order == subjects_order(student_subjects_with_councils)
        IN  /\ \A i \in 1..(Len(assigned_rows) - 1) :
                  ~ChronologicallyBefore(assigned_rows[i + 1].date, assigned_rows[i].date)
            /\ { assigned_rows[i].date : i \in 1..Len(assigned_rows) } = ValidDays
            /\ \A i \in 1..Len(assigned_rows) :
                  assigned_rows[i].subject =
                      order[(RankOfDay(assigned_rows[i].date) % Len(order)) + 1]
            /\ \A k \in 1..Len(day_log) :
                  LET rows == RowsOn(day_log[k].day)
                  IN  /\ rows # << >>
                      /\ day_log[k].urls = {} <=>
                            (\E i \in 1..Len(rows) : rows[i].url = "")
                      /\ (\E i \in 1..Len(rows) : rows[i].url = "") =>
                            /\ Len(rows) = 1
                            /\ rows[1].year = 0 /\ rows[1].grade = ""
                      /\ { rows[i].url : i \in 1..Len(rows) } \ {""} = day_log[k].urls

\* A run over the end of February returned a day of two papers, a placeholder
\* day and days in March.
C19_Witness ==
    /\ pc = "returned"
    /\ Len(all_days) >= 4
    /\ \E k \in 1..Len(day_log) : Cardinality(day_log[k].urls) = 2
    /\ \E i \in 1..Len(assigned_rows) : assigned_rows[i].url = ""
    /\ \E i \in 1..Len(assigned_rows) : assigned_rows[i].date[2] = 3
    /\ assigned_rows[1].date[2] = 2

\* the window 01-03-25 .. 07-03-25 without Saturdays and Sundays, for the
\* scheduled subjects Mathematics, English in that order
EndToEndCase ==
    /\ input_data # NoInputData
    /\ input_data.start_date = <<1, 3, 25>>
    /\ input_data.end_date = <<7, 3, 25>>
    /\ input_data.excluded_days = {"Saturday", "Sunday"}
    /\ subjects_order(student_subjects_with_councils) = <<Mathematics, English>>

\* C20: in that case 01-03-25 is a Saturday, the schedule covers exactly the
\* five days 03-03-25 .. 07-03-25, and their subjects are Mathematics, English,
\* Mathematics, English, Mathematics.
C20_EndToEndWeek ==
    (pc = "returned" /\ EndToEndCase) =>
        /\ strftime_A(strptime(input_data.start_date)) = "Saturday"
        /\ all_days = << <<3, 3, 25>>, <<4, 3, 25>>, <<5, 3, 25>>, <<6, 3, 25>>,
                         <<7, 3, 25>> >>
        /\ [k \in 1..Len(day_log) |-> day_log[k].day] = all_days
        /\ [k \in 1..Len(day_log) |-> day_log[k].subject] =
              <<Mathematics, English, Mathematics, English, Mathematics>>
        /\ { assigned_rows[i].date : i \in 1..Len(assigned_rows) } = Range(all_days)
        /\ \A i \in 1..Len(assigned_rows) :
              assigned_rows[i].subject =
                  IF assigned_rows[i].date[1] \in {3, 5, 7} THEN Mathematics ELSE English

\* The week was scheduled and every day got a paper.
C20_Witness ==
    /\ pc = "returned"
    /\ EndToEndCase
    /\ Len(assigned_rows) >= 5
    /\ \A i \in 1..Len(assigned_rows) : assigned_rows[i].url # ""

(***************************************************************************)
(* Further properties of the selection engine (SpecLookup).                *)
(***************************************************************************)
\* no group of the catalog is free: the ECESWA lookup finds nothing
NoFreeEceswaGroup(catalog, tracker) ==
    \A i \in 1..Len(catalog) : ~FreeOf(EceswaGroupOf(catalog, catalog[i]), tracker)

\* C21: a lookup leaves the tracker a superset of its previous value unless it
\* performs the pool reset, and the pool reset is performed only by the ECESWA
\* lookup with reset, when the ECESWA lookup found nothing and every URL of the
\* subject's catalog of that grade was in the tracker.
C21_TrackerGrowsExceptReset ==
    attempts # NoCall =>
        LET c == LastCall
            catalog == CallCatalog(c)
        IN  /\ ~c.reset => c.before \subseteq c.after
            /\ c.reset =>
                  /\ c.op = "eceswa_with_reset"
                  /\ NoFreeEceswaGroup(catalog, c.before)
                  /\ UrlsOf(catalog) \subseteq c.before

\* A lookup found nothing because one paper of the only group was assigned, did
\* not reset, and left the tracker as it was.
C21_Witness ==
    /\ CalledOp("eceswa_with_reset")
    /\ ~LastCall.reset
    /\ LastCall.papers = << >>
    /\ CallCatalog(LastCall) # << >>
    /\ LastCall.after = LastCall.before
    /\ UrlsOf(CallCatalog(LastCall)) \cap LastCall.before # {}

\* the URLs the cache holds under a grade key, over every cached subject
PoolOfGrade(grade) ==
    UNION { UrlsOf(CacheGet(subject_paper_cache, s, grade)) :
               s \in DOMAIN subject_paper_cache }

\* C27: a pool reset for a grade removes from the tracker exactly the URLs the
\* cache holds under that grade key, over every cached subject, and leaves
\* every other URL of the tracker; the lookup is then run exactly once more
\* and its result is returned, empty or not, without a second reset.
C27_ResetEvictsGradePool ==
    CalledOp("eceswa_with_reset") =>
        LET c == LastCall
            kept == c.before \ PoolOfGrade(c.grade)
            second == get_next_eceswa_unassigned_paper(
                          subject_paper_cache, kept, c.subject, c.grade)
        IN  /\ c.lookups = IF c.reset THEN 2 ELSE 1
            /\ c.reset =>
                  /\ c.papers = second.papers
                  /\ c.after = kept \cup UrlsOf(c.papers)
                  /\ c.after \cap PoolOfGrade(c.grade) = UrlsOf(c.papers)
                  /\ c.before \ PoolOfGrade(c.grade) \subseteq c.after

\* A reset for EGCSE Mathematics evicted a URL of EGCSE English, and kept a URL
\* of JC and a URL of IGCSE that were in the tracker.
C27_Witness ==
    /\ CalledOp("eceswa_with_reset")
    /\ LastCall.reset
    /\ LastCall.subject = Mathematics /\ LastCall.grade = "EGCSE"
    /\ "eg/22/English Paper 1.pdf" \in LastCall.before \ LastCall.after
    /\ "jc/22/Maths Paper 1.pdf" \in LastCall.before \cap LastCall.after
    /\ "ig/0580_s21_qp_12.pdf" \in LastCall.before \cap LastCall.after

(***************************************************************************)
(* Further properties of one scheduling run (Spec).                        *)
(***************************************************************************)
\* the subject of the next day of the loop
NextSubject ==
    SubjectAt(subjects_order(student_subjects_with_councils), subject_index)

\* the run stopped in the day loop on a subject whose council list is empty
StoppedOnEmptyCouncils ==
    /\ pc = "fault"
    /\ input_data # NoInputData
    /\ subjects_order(student_subjects_with_councils) # << >>
    /\ councils_map(student_subjects_with_councils, NextSubject) = << >>

\* C22: the run raises no fault when the council list of a scheduled subject
\* is empty; every valid day is scheduled and the days of that subject get a
\* placeholder row.
C22_EmptyCouncilsNoFault == ~StoppedOnEmptyCouncils

(***************************************************************************)
(* Properties of the records query (SpecRecords).                          *)
(***************************************************************************)
\* the rows of the file that belong to the student, are dated day and have a URL
PersistedRowsOfDay(day) ==
    SelectSeq(persisted,
              LAMBDA r : r.student_id = student.id /\ r.date = day /\ r.url # "")

\* C23: get_scheduled_records_by_day(day) returns exactly the persisted rows of
\* this student whose date is day and whose URL is not empty, and the call
\* changes neither the tracker nor the persisted rows.
C23_RecordsOfDay ==
    /\ [](pc = "queried" => attempts[1].result = PersistedRowsOfDay(attempts[1].day))
    /\ [][pc' = "queried" => UNCHANGED <<assigned_paper_urls, persisted>>]_vars

\* The query returned a row, and left out a row of the same day: a placeholder
\* of this student or a row of another student.
C23_Witness ==
    /\ pc = "queried"
    /\ attempts[1].result # << >>
    /\ \E i \in 1..Len(persisted) :
          /\ persisted[i].date = attempts[1].day
          /\ persisted[i] \notin Range(attempts[1].result)

(***************************************************************************)
(* Further properties of the calendar expansion (SpecCal).                 *)
(***************************************************************************)
MonthNumber(name) == CHOOSE m \in 1..12 : MonthNames[m] = name

\* block a lies in an earlier (year, month) than block b
EarlierBlock(a, b) ==
    \/ a.year < b.year
    \/ a.year = b.year /\ MonthNumber(a.month) < MonthNumber(b.month)

\* C24: the expansion groups the days by (year, month): the blocks come in
\* chronological order, there is one block for every (year, month) that has
\* a valid day and no other, every day lies in the block of its own year and
\* month, and the days of a block ascend.
C24_GroupedByYearAndMonth ==
    pc = "calendar_done" =>
        /\ \A i, j \in 1..Len(monthly) : i < j => EarlierBlock(monthly[i], monthly[j])
        /\ { <<monthly[i].year, monthly[i].month>> : i \in 1..Len(monthly) }
              = { <<dt.y, MonthNames[dt.m]>> : dt \in BruteForceDates(input_data) }
        /\ \A i \in 1..Len(monthly) :
              LET days == monthly[i].days
              IN  /\ days # << >>
                  /\ \A k \in 1..Len(days) :
                        /\ strptime(days[k]).y = monthly[i].year
                        /\ MonthNames[strptime(days[k]).m] = monthly[i].month
                  /\ \A k, l \in 1..Len(days) :
                        k < l => ToOrdinal(strptime(days[k])) < ToOrdinal(strptime(days[l]))

\* A window over the end of 2025 was expanded into a December block and a
\* January block of two days or more each, with a day between them excluded.
C24_Witness ==
    /\ pc = "calendar_done"
    /\ Len(monthly) = 2
    /\ monthly[1].year = 2025 /\ monthly[1].month = "December"
    /\ monthly[2].year = 2026 /\ monthly[2].month = "January"
    /\ Len(monthly[1].days) >= 2 /\ Len(monthly[2].days) >= 2
    /\ <<1, 1, 26>> \notin Range(monthly[2].days)

\* the days of the log given to subject s, in order
DaysOfSubject(s) == SelectSeq(day_log, LAMBDA d : d.subject = s)

\* the council index a logged day leaves behind: the position after the council
\* that yielded papers, or one past the start when no council did
IndexAfter(d) ==
    IF d.urls # {}
    THEN (d.start + Len(d.calls)) % Len(d.councils)
    ELSE (d.start + 1) % Len(d.councils)

\* C25: the councils of a subject rotate: the subject's index starts at 0, the
\* councils of a day are tried in cyclic list order from the index, a success
\* at position j leaves the index at (j + 1) mod len(councils), a day without
\* papers advances it by one mod len(councils), and the index stays in
\* 0..len(councils) - 1.
C25_CouncilIndexRotates ==
    \A s \in DOMAIN council_indices :
        LET days == DaysOfSubject(s)
        IN  /\ \A k \in 1..Len(days) :
                  LET d == days[k]
                      n == Len(d.councils)
                  IN  /\ d.start \in 0..(n - 1)
                      /\ d.start = IF k = 1 THEN 0 ELSE IndexAfter(days[k - 1])
                      /\ \A i \in 1..Len(d.calls) :
                            d.calls[i].op = OpOf(CouncilAt(d.councils, d.start, i - 1))
                      /\ d.urls # {} => d.calls[Len(d.calls)].urls = d.urls
                      /\ d.urls = {} => Len(d.calls) = n
            /\ council_indices[s] =
                  IF days = << >> THEN 0 ELSE IndexAfter(days[Len(days)])

\* A subject with two councils had a day that began at index 1 and found its
\* papers at the second council tried (index back to 1), and a later day
\* that began at index 1 and found nothing (index on to 0).
C25_Witness ==
    \E s \in DOMAIN council_indices :
        LET days == DaysOfSubject(s)
        IN  /\ \E k \in 1..Len(days) :
                  /\ Len(days[k].councils) = 2 /\ days[k].start = 1
                  /\ Len(days[k].calls) = 2 /\ days[k].urls # {}
            /\ Len(days) >= 2
            /\ days[Len(days)].start = 1 /\ days[Len(days)].urls = {}
            /\ council_indices[s] = 0

\* the positions of the council list tried on a logged day, in order
PositionsTried(d) ==
    [i \in 1..Len(d.calls) |-> (d.start + i - 1) % Len(d.councils)]

HasPlaceholder(day) ==
    \E i \in 1..Len(assigned_rows) :
        assigned_rows[i].date = day /\ assigned_rows[i].url = ""

\* C26: the fallback over the councils of a subject is exhaustive: on a day the
\* councils are tried one after another until one yields papers, no council is
\* tried twice, and the day gets a placeholder row only if every council of
\* the subject was tried and returned nothing.
C26_FallbackIsExhaustive ==
    \A k \in 1..Len(day_log) :
        LET d == day_log[k]
            n == Len(d.councils)
        IN  /\ d.calls # << >> /\ Len(d.calls) <= n
            /\ NoDuplicates(PositionsTried(d))
            /\ \A i \in 1..(Len(d.calls) - 1) : d.calls[i].urls = {}
            /\ Len(d.calls) < n => d.calls[Len(d.calls)].urls # {}
            /\ HasPlaceholder(d.day) <=>
                  /\ Range(PositionsTried(d)) = 0..(n - 1)
                  /\ \A i \in 1..Len(d.calls) : d.calls[i].urls = {}

\* One day the first council tried had nothing and the second yielded papers;
\* another day both councils were tried, had nothing, and the day got a placeholder.
C26_Witness ==
    /\ \E k \in 1..Len(day_log) :
          /\ Len(day_log[k].calls) = 2
          /\ day_log[k].calls[1].urls = {} /\ day_log[k].calls[2].urls # {}
          /\ ~HasPlaceholder(day_log[k].day)
    /\ \E k \in 1..Len(day_log) :
          /\ Len(day_log[k].calls) = 2
          /\ day_log[k].urls = {}
          /\ HasPlaceholder(day_log[k].day)

\* the scheduler of the run has been constructed
Constructed == pc \notin {"start", "fault"} \/ (pc = "fault" /\ input_data # NoInputData)

\* C28: after construction the cache has one entry for every subject of the
\* student and no other; under a subject a grade key is present exactly when
\* the reader of that grade returned at least one paper for the subject, and
\* the list stored under it is the reader's list, in the reader's order.
C28_CacheMirrorsReaders ==
    Constructed =>
        /\ DOMAIN subject_paper_cache = Range(student.subjects)
        /\ \A s \in Range(student.subjects) :
              /\ DOMAIN subject_paper_cache[s] \subseteq GradeKeys
              /\ \A g \in GradeKeys :
                    /\ g \in DOMAIN subject_paper_cache[s]
                          <=> Len(get_subject_metadata(paper_db, g, s)) >= 1
                    /\ g \in DOMAIN subject_paper_cache[s]
                          => subject_paper_cache[s][g] = get_subject_metadata(paper_db, g, s)

\* A scheduler was constructed on catalogs with two EGCSE papers and a JC paper
\* of Mathematics and no paper of English: English has an entry without keys.
C28_Witness ==
    /\ pc = "constructed"
    /\ DOMAIN subject_paper_cache[English] = {}
    /\ DOMAIN subject_paper_cache[Mathematics] = {"EGCSE", "JC"}
    /\ UrlsOf(subject_paper_cache[Mathematics]["EGCSE"])
          = {"eg/22/Maths Paper 1.pdf", "eg/21/Maths Paper 1.pdf"}
    /\ subject_paper_cache[Mathematics]["EGCSE"][1].url = "eg/22/Maths Paper 1.pdf"

\* C29: the cache is read-only after construction: no lookup, no step of
\* get_new_scheduled_papers_for_student and no completeness query adds,
\* removes or reorders an entry of the catalog.
C29_CacheIsReadOnly ==
    [][pc # "start" => subject_paper_cache' = subject_paper_cache]_vars

\* A run returned after three days or more, papers were assigned on two of
\* them, and the cache still holds what the readers returned.
C29_Witness ==
    /\ pc = "returned"
    /\ Len(day_log) >= 3
    /\ Cardinality({ k \in 1..Len(day_log) : day_log[k].urls # {} }) >= 2
    /\ subject_paper_cache = cache_all_subject_papers(paper_db, student.subjects)
    /\ \E s \in DOMAIN subject_paper_cache : DOMAIN subject_paper_cache[s] # {}

(***************************************************************************)
(* Termination of a scheduling run (SpecLive).                             *)
(***************************************************************************)
\* the work done so far by the day loop stays within its bounds
LoopIsBounded ==
    /\ Len(day_log) <= Len(all_days)
    /\ NoDuplicates(all_days)
    /\ \A k \in 1..Len(day_log) :
          /\ day_log[k].day = all_days[k]
          /\ Len(day_log[k].calls) <= Len(day_log[k].councils)
          /\ \A i \in 1..Len(day_log[k].calls) :
                /\ day_log[k].calls[i].lookups \in {1, 2}
                /\ day_log[k].calls[i].op = "cambridge"
                      => day_log[k].calls[i].lookups = 1
    /\ pc = "returned" =>
          /\ Len(day_log) = Len(all_days)
          /\ Range(all_days) = ValidDays

\* C30: get_new_scheduled_papers_for_student terminates for every day list,
\* subject list and catalog: the loop, once entered, ends (by returning, or
\* by the fault of a configuration without subjects or councils); it visits
\* each valid day exactly once, makes at most len(councils) council attempts
\* on a day, and an ECESWA attempt runs its lookup at most twice, that is with
\* at most one pool reset and one retry.
C30_GetNewTerminates ==
    /\ []LoopIsBounded
    /\ (pc = "loop" ~> pc \in {"returned", "fault"})

\* A run over four valid days or more returned; one of its ECESWA attempts
\* reset the pool and retried, and one of its days tried two councils.
C30_Witness ==
    /\ pc = "returned"
    /\ Len(all_days) >= 4
    /\ Len(day_log) = Len(all_days)
    /\ \E k \in 1..Len(day_log) : \E i \in 1..Len(day_log[k].calls) :
          day_log[k].calls[i].lookups = 2
    /\ \E k \in 1..Len(day_log) : Len(day_log[k].calls) = 2

(***************************************************************************)
(* Properties of the downloads writer (SpecDownloads).                     *)
(***************************************************************************)
\* the file holds a row whose every column is the text of the record's field
StoredAlready(file, record) == CsvRow(record) \in Range(file)

\* C32: write_downloaded_paper_metadata_record is idempotent: a record whose
\* every field equals a stored row is not written and the call returns False,
\* any other record is appended as one row and the call returns True, and
\* the file never holds two identical rows.
C32_DownloadWriterIsIdempotent ==
    /\ NoDuplicates(downloaded_papers)
    /\ attempts # NoCall =>
          LET c == attempts[1]
          IN  IF StoredAlready(c.before, c.record)
              THEN c.result = FALSE /\ downloaded_papers = c.before
              ELSE c.result = TRUE
                   /\ downloaded_papers = Append(c.before, CsvRow(c.record))

(***************************************************************************)
(* Properties of the batch loop with its four helpers (SpecOrch).          *)
(***************************************************************************)
HelperOrder == <<"create", "download", "copy", "pdf">>

\* the helper calls made so far are runs of create, download, copy, pdf, each
\* run for one student, and an unfinished run belongs to the current student
HelpersInOrder ==
    /\ \A i \in 1..Len(steps) :
          LET k == ((i - 1) % 4) + 1
          IN  /\ steps[i].step = HelperOrder[k]
              /\ steps[i].student = steps[i - (k - 1)].student
    /\ Len(steps) % 4 # 0 => steps[Len(steps)].student = student.id

ScheduledSrcPaths ==
    { src_path(persisted[i]) :
         i \in { j \in 1..Len(persisted) :
                   persisted[j].student_id = student.id /\ persisted[j].url # "" } }

ScheduledDestPaths ==
    { dest_path(student, persisted[i]) :
         i \in { j \in 1..Len(persisted) :
                   persisted[j].student_id = student.id /\ persisted[j].url # "" } }

\* a step in which save_schedule_to_disk() is executed
CopyRuns ==
    /\ Len(steps') = Len(steps) + 1
    /\ steps'[Len(steps')].step = "copy"
    /\ steps'[Len(steps')].ran

\* C31: the helpers of one student run in the order create, download, copy,
\* pdf and are finished before the next student's begin; save_schedule_to_disk
\* is executed only when every scheduled paper exists at its source path and
\* some scheduled paper is not yet at its destination, and nothing else
\* changes the output directory.
C31_HelpersInOrderAndCopyGuarded ==
    /\ []HelpersInOrder
    /\ [][ /\ CopyRuns => /\ ScheduledSrcPaths \subseteq src_dir
                          /\ ~(ScheduledDestPaths \subseteq output_dir)
           /\ output_dir' # output_dir => CopyRuns ]_vars

C31_Witness ==
    /\ Len(steps) >= 7
    /\ steps[3].ran
    /\ steps[7].ran
    /\ steps[5].student # steps[1].student
    /\ ScheduledDestPaths # {}
    /\ ScheduledDestPaths \subseteq output_dir

(***************************************************************************)
(* Lookups that find nothing (SpecLookup).                                 *)
(***************************************************************************)
\* C33: a lookup that returns the empty list, the ECESWA lookup with reset or
\* the Cambridge lookup, leaves the tracker exactly as it was before the call.
C33_EmptyLookupKeepsTracker ==
    attempts # NoCall =>
        LET c == LastCall
        IN  (c.op \in {"eceswa_with_reset", "cambridge"} /\ c.papers = << >>)
                => c.after = c.before

(***************************************************************************)
(* Repeats and starvation within one run (Spec).                           *)
(***************************************************************************)
\* the URL sets of the ECESWA groups of a subject under the student's grade
EceswaGroupUrls(s) ==
    LET groups == EceswaGroups(CacheGet(subject_paper_cache, s, student.grade))
    IN  { UrlsOf(groups[i].papers) : i \in 1..Len(groups) }

\* the run began with an empty tracker and is in its loop
RunFromEmptyTracker == pc = "loop" /\ persisted = << >>

\* C34: in a run that starts with an empty tracker, a day of subject S gets
\* an ECESWA group that an earlier day of S already got only if every ECESWA
\* group of S was assigned on some earlier day, whatever resets the other
\* subjects of the grade trigger.
C34_NoRepeatBeforeExhaustion ==
    RunFromEmptyTracker =>
        \A j \in 1..Len(day_log) : \A i \in 1..(j - 1) :
            ( /\ day_log[i].subject = day_log[j].subject
              /\ day_log[j].urls \in EceswaGroupUrls(day_log[j].subject)
              /\ day_log[i].urls = day_log[j].urls )
            => \A g \in EceswaGroupUrls(day_log[j].subject) :
                  \E k \in 1..(j - 1) :
                      /\ day_log[k].subject = day_log[j].subject
                      /\ day_log[k].urls = g

\* no URL occurs twice in the paper files
CatalogUrlsPairwiseDistinct ==
    \A g1, g2 \in DOMAIN paper_db :
        \A s1 \in DOMAIN paper_db[g1], s2 \in DOMAIN paper_db[g2] :
            \A i \in 1..Len(paper_db[g1][s1]), j \in 1..Len(paper_db[g2][s2]) :
                paper_db[g1][s1][i].url = paper_db[g2][s2][j].url
                    => (g1 = g2 /\ s1 = s2 /\ i = j)

\* the subject has papers under the student's ECESWA grade
HasEceswaCatalog(s) == CacheGet(subject_paper_cache, s, student.grade) # << >>

CreateStepRunsAgain ==
    /\ steps # << >>
    /\ steps[Len(steps)].step = "create"
    /\ steps[Len(steps)].student = student.id
    /\ get_all_days(input_data) # {}
    /\ \E i \in 1..(Len(steps) - 1) :
          /\ steps[i].step = "create"
          /\ steps[i].student = student.id
          /\ steps[i].ran

\* C36: with an unchanged configuration that has a valid day, once
\* create_schedule_helper has run for a student and its rows are persisted, a
\* further call for the same student writes no row, also when the first call
\* wrote only placeholder rows.
C36_CreateStepConverges ==
    CreateStepRunsAgain => (~steps[Len(steps)].ran /\ written = 0)

(***************************************************************************)
(* Which subjects are scheduled (Spec).                                    *)
(***************************************************************************)
\* the student's subjects that have an entry in prioritized_councils
ConfiguredSubjects ==
    { input_data.prioritized_councils[i].subject :
         i \in 1..Len(input_data.prioritized_councils) } \cap Range(student.subjects)

ScheduledSubjects == { day_log[i].subject : i \in 1..Len(day_log) }

C38_EmptyOrderNoFault ==
    ( /\ input_data # NoInputData
      /\ pc \notin {"start", "constructed"}
      /\ subjects_order(student_subjects_with_councils) = << >>
      /\ all_days # << >> )
        => pc # "fault"

====
